---- MODULE Spec2Model ----
(***************************************************************************)
(* Verification model of YASK (Yet Another Stencil Kernel):                *)
(*   - the expression visitors of src/foldBuilder/Visitor.hpp              *)
(*   - the vector-register union of src/realv.hpp                          *)
(***************************************************************************)
EXTENDS Integers, Naturals, Sequences, FiniteSets, TLC

(***************************************************************************)
(* Bounds of the model.                                                    *)
(***************************************************************************)
\* largest number of nodes in one expression arena
MaxNodes == 3
\* largest number of operands of one CommutativeExpr
MaxOps == 2

VARIABLES
    \* ---- Visitor.hpp ----
    nodes,      \* the expression arena: node id -> [kind, ops]; the root is node Len(nodes)
    visitor,    \* dynamic type of the visitor object: "ExprVisitor" or "FpOpCounterVisitor"
    stack,      \* pending accept() calls, next one first
    trace,      \* node ids in the order their visit() overload was entered
    _numOps,    \* FpOpCounterVisitor::_numOps
    \* ---- realv.hpp ----
    REAL_BYTES, \* the REAL_BYTES macro of the build
    VLEN,       \* the VLEN macro of the build: lanes of a realv
    pc,         \* "start", "stored" (after storeTo) or "done"
    op,         \* the realv operation that was called
    args,       \* its arguments as they were before the call
    res,        \* its outcome in every build: build -> [exit, ...]
    \* ---- Cpp.hpp ----
    _allowUnalignedLoads, \* VecPrintHelper::_allowUnalignedLoads
    _dims,      \* Dimensions: [_fold : dim -> multiplicity, _innerDim]
    _vecPtrs,   \* CppVecPrintHelper::_vecPtrs: base GridPoint -> ptr-var name
    _ptrOfsLo,  \* CppVecPrintHelper::_ptrOfsLo: ptr-var name -> lowest inner-dim offset
    _ptrOfsHi,  \* CppVecPrintHelper::_ptrOfsHi: ptr-var name -> highest inner-dim offset
    _varNum,    \* number of variable names made so far
    os,         \* the statements printed so far
    calls       \* the calls made on the helper so far, with what they returned

visitorVars == <<nodes, visitor, stack, trace, _numOps>>

realvVars == <<REAL_BYTES, VLEN, pc, op, args, res>>

codegenVars ==
    <<_allowUnalignedLoads, _dims, _vecPtrs, _ptrOfsLo, _ptrOfsHi, _varNum, os, calls>>

vars ==
    <<nodes, visitor, stack, trace, _numOps, REAL_BYTES, VLEN, pc, op, args, res,
      _allowUnalignedLoads, _dims, _vecPtrs, _ptrOfsLo, _ptrOfsHi, _varNum, os, calls>>

\* no CppVecPrintHelper has been made
NoHelper ==
    /\ _allowUnalignedLoads = FALSE
    /\ _dims = <<>>
    /\ _vecPtrs = <<>>
    /\ _ptrOfsLo = <<>>
    /\ _ptrOfsHi = <<>>
    /\ _varNum = 0
    /\ os = <<>>
    /\ calls = <<>>

(***************************************************************************)
(* Expression arenas.  An ExprPtr is a node id; a node only points to      *)
(* nodes with a smaller id, so every arena is a DAG.  The same id may be   *)
(* an operand at several places (a shared sub-expression).                 *)
(***************************************************************************)
LeafKinds == {"ConstExpr", "CodeExpr", "GridPoint"}

RECURSIVE SeqsUpTo(_, _)
\* all sequences over S of length 0..n
SeqsUpTo(S, n) ==
    IF n = 0 THEN {<<>>}
    ELSE LET shorter == SeqsUpTo(S, n - 1)
         IN  shorter \cup {Append(s, x) : s \in {t \in shorter : Len(t) = n - 1}, x \in S}

\* the nodes that can be built as node number n of arena a (its operands exist already)
NodeChoices(a, n) ==
    LET below == 1..(n - 1)
    IN  {[kind |-> k, ops |-> <<>>] : k \in LeafKinds}
        \cup {[kind |-> "UnaryExpr", ops |-> <<r>>] : r \in below}
        \cup {[kind |-> "BinaryExpr", ops |-> <<l, r>>] : l \in below, r \in below}
        \cup {[kind |-> "CommutativeExpr", ops |-> s] : s \in SeqsUpTo(below, MaxOps)}
        \cup {[kind |-> "EqualsExpr", ops |-> <<l, r>>] :
                 l \in {g \in below : a[g].kind = "GridPoint"}, r \in below}

RECURSIVE Arenas(_)
\* all arenas of exactly n nodes
Arenas(n) ==
    IF n = 0 THEN {<<>>}
    ELSE UNION {{Append(a, c) : c \in NodeChoices(a, n)} : a \in Arenas(n - 1)}

RECURSIVE Reach(_, _)
\* the nodes of arena a reachable from the nodes of set s
Reach(a, s) ==
    LET next == s \cup UNION {{a[i].ops[j] : j \in 1..Len(a[i].ops)} : i \in s}
    IN  IF next = s THEN s ELSE Reach(a, next)

\* an equation is a top-level node only: EqualsExpr is never an operand
WellFormed(a) ==
    /\ Len(a) >= 1
    /\ Reach(a, {Len(a)}) = 1..Len(a)
    /\ \A i \in 1..(Len(a) - 1) : a[i].kind # "EqualsExpr"

ExprArenas == {a \in UNION {Arenas(n) : n \in 1..MaxNodes} : WellFormed(a)}

root == Len(nodes)

(***************************************************************************)
(* Expr accessors.                                                         *)
(***************************************************************************)
\* UnaryExpr::getRhs
getRhs1(n) == nodes[n].ops[1]
\* BinaryExpr::getLhs / EqualsExpr::getLhs
getLhs(n) == nodes[n].ops[1]
\* BinaryExpr::getRhs / EqualsExpr::getRhs
getRhs(n) == nodes[n].ops[2]
\* CommutativeExpr::getOps
getOps(n) == nodes[n].ops

(***************************************************************************)
(* The order in which each default visit() overload calls accept() on the  *)
(* operands of the node.                                                   *)
(***************************************************************************)
UnaryAccepts(n) == <<getRhs1(n)>>

\* a visit(BinaryExpr*) that enters an operand used on both sides once
BinaryAccepts_once(n) ==
    IF getLhs(n) = getRhs(n) THEN <<getLhs(n)>> ELSE <<getLhs(n), getRhs(n)>>

BinaryAccepts(n) == <<getLhs(n), getRhs(n)>>

\* a visit(EqualsExpr*) that skips the left-hand grid point
EqualsAccepts_rhsOnly(n) == <<getRhs(n)>>

EqualsAccepts(n) == <<getLhs(n), getRhs(n)>>

CommutativeAccepts(n) == getOps(n)

\* FpOpCounterVisitor::visit(CommutativeExpr*): _numOps += ops.size() - 1.
\* ops.size() - 1 is a size_t; the sum is taken modulo 2^64 and narrowed to
\* int, which for the sizes of the model is _numOps + size - 1 (size 0
\* gives _numOps - 1).
CommutativeCount(n) == _numOps + (Len(getOps(n)) - 1)

(***************************************************************************)
(* Visitor state machine.  accept() of a node dispatches to the visit()    *)
(* overload of the node's kind in the visitor's dynamic type; the calls a  *)
(* visit() makes on the operands run, in order, before anything that was   *)
(* pending when it was entered.                                            *)
(***************************************************************************)
VisitorInit ==
    /\ nodes \in ExprArenas
    /\ visitor \in {"ExprVisitor", "FpOpCounterVisitor"}
    /\ stack = <<Len(nodes)>>
    /\ trace = <<>>
    /\ _numOps = 0
    /\ REAL_BYTES = 4
    /\ VLEN = 1
    /\ pc = "done"
    /\ op = "none"
    /\ args = <<>>
    /\ res = <<>>
    /\ NoHelper

Dispatch(kind) ==
    /\ stack # <<>>
    /\ nodes[Head(stack)].kind = kind

Enter(accepts) ==
    /\ trace' = Append(trace, Head(stack))
    /\ stack' = accepts \o Tail(stack)
    /\ UNCHANGED <<nodes, visitor>>
    /\ UNCHANGED realvVars
    /\ UNCHANGED codegenVars

\* ExprVisitor::visit(ConstExpr*)
VisitConstExpr ==
    /\ Dispatch("ConstExpr")
    /\ Enter(<<>>)
    /\ UNCHANGED _numOps

\* ExprVisitor::visit(CodeExpr*)
VisitCodeExpr ==
    /\ Dispatch("CodeExpr")
    /\ Enter(<<>>)
    /\ UNCHANGED _numOps

\* ExprVisitor::visit(GridPoint*)
VisitGridPoint ==
    /\ Dispatch("GridPoint")
    /\ Enter(<<>>)
    /\ UNCHANGED _numOps

\* ExprVisitor::visit(UnaryExpr*)
VisitUnaryExpr ==
    /\ Dispatch("UnaryExpr")
    /\ visitor = "ExprVisitor"
    /\ Enter(UnaryAccepts(Head(stack)))
    /\ UNCHANGED _numOps

\* ExprVisitor::visit(BinaryExpr*)
VisitBinaryExpr ==
    /\ Dispatch("BinaryExpr")
    /\ visitor = "ExprVisitor"
    /\ Enter(BinaryAccepts(Head(stack)))
    /\ UNCHANGED _numOps

\* ExprVisitor::visit(EqualsExpr*), inherited by FpOpCounterVisitor
VisitEqualsExpr ==
    /\ Dispatch("EqualsExpr")
    /\ Enter(EqualsAccepts(Head(stack)))
    /\ UNCHANGED _numOps

\* ExprVisitor::visit(CommutativeExpr*)
VisitCommutativeExpr ==
    /\ Dispatch("CommutativeExpr")
    /\ visitor = "ExprVisitor"
    /\ Enter(CommutativeAccepts(Head(stack)))
    /\ UNCHANGED _numOps

\* FpOpCounterVisitor::visit(UnaryExpr*)
FpVisitUnaryExpr ==
    /\ Dispatch("UnaryExpr")
    /\ visitor = "FpOpCounterVisitor"
    /\ _numOps' = _numOps + 1
    /\ Enter(UnaryAccepts(Head(stack)))

\* FpOpCounterVisitor::visit(BinaryExpr*)
FpVisitBinaryExpr ==
    /\ Dispatch("BinaryExpr")
    /\ visitor = "FpOpCounterVisitor"
    /\ _numOps' = _numOps + 1
    /\ Enter(BinaryAccepts(Head(stack)))

\* FpOpCounterVisitor::visit(CommutativeExpr*)
FpVisitCommutativeExpr ==
    /\ Dispatch("CommutativeExpr")
    /\ visitor = "FpOpCounterVisitor"
    /\ _numOps' = CommutativeCount(Head(stack))
    /\ Enter(CommutativeAccepts(Head(stack)))

VisitorNext ==
    \/ VisitConstExpr
    \/ VisitCodeExpr
    \/ VisitGridPoint
    \/ VisitUnaryExpr
    \/ VisitBinaryExpr
    \/ VisitEqualsExpr
    \/ VisitCommutativeExpr
    \/ FpVisitUnaryExpr
    \/ FpVisitBinaryExpr
    \/ FpVisitCommutativeExpr

\* FpOpCounterVisitor::getNumOps
getNumOps == _numOps

\* the traversal of the root has returned
VisitDone == stack = <<>>

(***************************************************************************)
(* Properties of the visitors.                                             *)
(***************************************************************************)
\* the places (node, operand position) of arena a where node m is an operand
UseSites(a, m) ==
    {<<i, j>> \in (1..Len(a)) \X (1..MaxOps + 2) : j <= Len(a[i].ops) /\ a[i].ops[j] = m}

\* no sub-expression is shared
IsTree(a) == \A m \in 1..Len(a) : Cardinality(UseSites(a, m)) <= 1

RECURSIVE SumOver(_, _)
SumOver(f, S) ==
    IF S = {} THEN 0
    ELSE LET x == CHOOSE y \in S : TRUE IN f[x] + SumOver(f, S \ {x})

\* operations of one node: 1 for unary and binary, k - 1 for a commutative
\* node of k >= 1 operands, 0 for everything else
NodeOps(a) ==
    [i \in 1..Len(a) |->
        CASE a[i].kind \in {"UnaryExpr", "BinaryExpr"} -> 1
          [] a[i].kind = "CommutativeExpr" /\ Len(a[i].ops) >= 1 -> Len(a[i].ops) - 1
          [] OTHER -> 0]

TreeOps(a) == SumOver(NodeOps(a), 1..Len(a))

\* C1: for an expression tree without sharing, getNumOps() after the visit
\* of the root is #unary + #binary + sum of (k - 1) over the commutative
\* nodes of k >= 1 operands.
C1_OpCount ==
    (VisitDone /\ visitor = "FpOpCounterVisitor" /\ IsTree(nodes))
        => getNumOps = TreeOps(nodes)

\* every commutative node of the arena has an operand
NoEmptyCommutative(a) ==
    \A i \in 1..Len(a) : a[i].kind = "CommutativeExpr" => Len(a[i].ops) >= 1

\* the count of C1 on the trees whose commutative nodes all have operands
OpCountNonEmpty ==
    (VisitDone /\ visitor = "FpOpCounterVisitor" /\ IsTree(nodes)
        /\ NoEmptyCommutative(nodes))
        => getNumOps = TreeOps(nodes)

RECURSIVE PreorderOf(_, _), PreorderAll(_, _)
\* depth-first order from node n: the node, then its operands left to right;
\* of an equation, the left-hand point only when visitLhs
PreorderOf(n, visitLhs) ==
    LET k == nodes[n].kind
        o == nodes[n].ops
    IN  <<n>> \o
        (CASE k = "UnaryExpr" -> PreorderOf(o[1], visitLhs)
           [] k = "BinaryExpr" -> PreorderOf(o[1], visitLhs) \o PreorderOf(o[2], visitLhs)
           [] k = "EqualsExpr" ->
                (IF visitLhs THEN PreorderOf(o[1], visitLhs) ELSE <<>>)
                    \o PreorderOf(o[2], visitLhs)
           [] k = "CommutativeExpr" -> PreorderAll(o, visitLhs)
           [] OTHER -> <<>>)
PreorderAll(s, visitLhs) ==
    IF s = <<>> THEN <<>>
    ELSE PreorderOf(Head(s), visitLhs) \o PreorderAll(Tail(s), visitLhs)

\* C2 as stated: the default traversal enters unary: operand; binary: left,
\* right; commutative: stored order; equation: right-hand side only.
C2_LhsNotVisited ==
    (VisitDone /\ visitor = "ExprVisitor") => trace = PreorderOf(root, FALSE)

\* C2: the default traversal enters unary: operand; binary: left, right;
\* commutative: stored order; equation: left-hand grid point, then the
\* right-hand side.
C2_TraversalOrder ==
    (VisitDone /\ visitor = "ExprVisitor") => trace = PreorderOf(root, TRUE)

\* a default traversal of an equation has returned
C2_Witness ==
    /\ VisitDone
    /\ visitor = "ExprVisitor"
    /\ nodes[root].kind = "EqualsExpr"
    /\ Len(trace) >= 3
    /\ trace[2] = getLhs(root)

SpecVisitor == VisitorInit /\ [][VisitorNext]_vars

(***************************************************************************)
(* realv.hpp: REAL values.                                                 *)
(*                                                                         *)
(* A REAL is [k, s, n, d]: k = "fin" is the REAL nearest to (-1)^s * n/d   *)
(* (n/d in lowest terms; n = 0 is the zero of sign s), k = "inf" the       *)
(* infinity of sign s, k = "nan" a NaN of sign s.  Two REALs have the same *)
(* bits iff the records are equal.                                         *)
(***************************************************************************)
RECURSIVE GCD(_, _)
GCD(x, y) == IF y = 0 THEN x ELSE GCD(y, x % y)

Abs(x) == IF x < 0 THEN -x ELSE x

Fin(s, n, d) ==
    LET g == GCD(n, d) IN [k |-> "fin", s |-> s, n |-> n \div g, d |-> d \div g]
Inf(s) == [k |-> "inf", s |-> s, n |-> 0, d |-> 1]
NaN(s) == [k |-> "nan", s |-> s, n |-> 0, d |-> 1]
Zero(s) == Fin(s, 0, 1)
\* the NaN an invalid operation produces (x86 real indefinite)
QNaN == NaN(1)
\* the REAL of an integer in the exactly representable range
RealInt(v) == Fin(IF v < 0 THEN 1 ELSE 0, Abs(v), 1)

IsNaN(x) == x.k = "nan"
IsInf(x) == x.k = "inf"
IsZero(x) == x.k = "fin" /\ x.n = 0
Xor(s, t) == (s + t) % 2
\* signed numerator of a finite REAL
Num(x) == IF x.s = 1 THEN -x.n ELSE x.n

\* unary minus: flips the sign bit
FNeg(x) == [x EXCEPT !.s = 1 - x.s]

\* x + y, round to nearest
FAdd(x, y) ==
    IF IsNaN(x) THEN x
    ELSE IF IsNaN(y) THEN y
    ELSE IF IsInf(x) /\ IsInf(y) THEN (IF x.s = y.s THEN x ELSE QNaN)
    ELSE IF IsInf(x) THEN x
    ELSE IF IsInf(y) THEN y
    ELSE LET sum == Num(x) * y.d + Num(y) * x.d
         IN  IF sum = 0 THEN Zero(IF x.s = y.s THEN x.s ELSE 0)
             ELSE Fin(IF sum < 0 THEN 1 ELSE 0, Abs(sum), x.d * y.d)

\* x - y
FSub(x, y) ==
    IF IsNaN(x) THEN x
    ELSE IF IsNaN(y) THEN y
    ELSE FAdd(x, FNeg(y))

\* x * y
FMul(x, y) ==
    IF IsNaN(x) THEN x
    ELSE IF IsNaN(y) THEN y
    ELSE IF (IsInf(x) /\ IsZero(y)) \/ (IsZero(x) /\ IsInf(y)) THEN QNaN
    ELSE IF IsInf(x) \/ IsInf(y) THEN Inf(Xor(x.s, y.s))
    ELSE Fin(Xor(x.s, y.s), x.n * y.n, x.d * y.d)

\* x / y
FDiv(x, y) ==
    IF IsNaN(x) THEN x
    ELSE IF IsNaN(y) THEN y
    ELSE IF IsInf(x) /\ IsInf(y) THEN QNaN
    ELSE IF IsInf(x) THEN Inf(Xor(x.s, y.s))
    ELSE IF IsInf(y) THEN Zero(Xor(x.s, y.s))
    ELSE IF IsZero(y) THEN (IF IsZero(x) THEN QNaN ELSE Inf(Xor(x.s, y.s)))
    ELSE Fin(Xor(x.s, y.s), x.n * y.d, x.d * y.n)

\* x < y (false when either is a NaN; the two zeros are equal)
FLt(x, y) ==
    /\ ~IsNaN(x)
    /\ ~IsNaN(y)
    /\ IF IsInf(x) THEN x.s = 1 /\ ~(IsInf(y) /\ y.s = 1)
       ELSE IF IsInf(y) THEN y.s = 0
       ELSE Num(x) * y.d < Num(y) * x.d

\* x > y
FGt(x, y) == FLt(y, x)

\* x != y (true when either is a NaN)
FNe(x, y) == IsNaN(x) \/ IsNaN(y) \/ FLt(x, y) \/ FLt(y, x)

(***************************************************************************)
(* realv.hpp: build configuration.                                         *)
(***************************************************************************)
V512_ELEMS == IF REAL_BYTES = 4 THEN 16 ELSE 8
CTRL_IDX_MASK == IF REAL_BYTES = 4 THEN 15 ELSE 7
CTRL_SEL_BIT == IF REAL_BYTES = 4 THEN 16 ELSE 8

\* the other macros a build may define; __INTEL_COMPILER is read by storeTo only
Builds == [INTRIN512 : BOOLEAN, ARCH_KNC : BOOLEAN]
IccBuilds == [INTRIN512 : BOOLEAN, ARCH_KNC : BOOLEAN, INTEL_COMPILER : BOOLEAN]

EMU_INTRINSICS(b) ==
    IF VLEN = 1 THEN TRUE
    ELSE IF VLEN # V512_ELEMS THEN TRUE
    ELSE IF ~b.INTRIN512 THEN TRUE
    ELSE FALSE

\* lane indices of a realv and of a 512-bit register
Lanes == 0..(VLEN - 1)
Lanes512 == 0..(V512_ELEMS - 1)

\* a call that returned with value v / a call that ended in exit(1)
Returned(v) == [exit |-> FALSE, v |-> v]
Exited == [exit |-> TRUE, v |-> <<>>]

(***************************************************************************)
(* 512-bit intrinsics, lane for lane (Intel intrinsics guide).             *)
(***************************************************************************)
mm512_setzero == [i \in Lanes512 |-> Zero(0)]
mm512_set1(val) == [i \in Lanes512 |-> val]
mm512_add(x, y) == [i \in Lanes512 |-> FAdd(x[i], y[i])]
mm512_sub(x, y) == [i \in Lanes512 |-> FSub(x[i], y[i])]
mm512_mul(x, y) == [i \in Lanes512 |-> FMul(x[i], y[i])]
mm512_div(x, y) == [i \in Lanes512 |-> FDiv(x[i], y[i])]

(***************************************************************************)
(* realv operations, one build at a time: b is the build, r the lanes of   *)
(* *this.                                                                  *)
(***************************************************************************)
\* realv::operator=(REAL val)
Broadcast(b, val) ==
    IF EMU_INTRINSICS(b) THEN [i \in Lanes |-> val]
    ELSE mm512_set1(val)

RECURSIVE BitLen(_)
\* number of significant bits of the natural number n
BitLen(n) == IF n = 0 THEN 0 ELSE 1 + BitLen(n \div 2)

\* the natural number n rounded to p significant bits, ties to even
RoundSig(n, p) ==
    IF BitLen(n) <= p THEN n
    ELSE LET drop == 2 ^ (BitLen(n) - p)
             q    == n \div drop
             r    == n % drop
             up   == 2 * r > drop \/ (2 * r = drop /\ q % 2 = 1)
         IN  (IF up THEN q + 1 ELSE q) * drop

\* significand bits of REAL: float 24, double 53
SigBits == IF REAL_BYTES = 4 THEN 24 ELSE 53

\* an int whose bits are taken for the bits of a REAL
RealOfInt_bits(val) ==
    IF val = 0 THEN Zero(0)
    ELSE [k |-> "bits", s |-> IF val < 0 THEN 1 ELSE 0, n |-> Abs(val), d |-> 1]

\* REAL(val) of an int
RealOfInt(val) == Fin(IF val < 0 THEN 1 ELSE 0, RoundSig(Abs(val), SigBits), 1)

\* REAL(val) of a value of the other precision: a double narrowed to float
\* (REAL_BYTES == 4) or a float widened to double, which keeps the value
RealOfOther(val) ==
    IF REAL_BYTES = 4 /\ val.k = "fin" THEN Fin(val.s, RoundSig(val.n, SigBits), val.d)
    ELSE val

\* realv::operator-()
Negate(b, r) ==
    IF EMU_INTRINSICS(b) THEN [i \in Lanes |-> FNeg(r[i])]
    ELSE mm512_sub(mm512_setzero, r)

\* realv::operator+(realv rhs)
Add(b, r, rhs) ==
    IF EMU_INTRINSICS(b) THEN [i \in Lanes |-> FAdd(r[i], rhs[i])]
    ELSE mm512_add(r, rhs)

\* realv::operator-(realv rhs)
Sub(b, r, rhs) ==
    IF EMU_INTRINSICS(b) THEN [i \in Lanes |-> FSub(r[i], rhs[i])]
    ELSE mm512_sub(r, rhs)

\* realv::operator*(realv rhs)
Mul(b, r, rhs) ==
    IF EMU_INTRINSICS(b) THEN [i \in Lanes |-> FMul(r[i], rhs[i])]
    ELSE mm512_mul(r, rhs)

\* realv::operator/(realv rhs)
Div(b, r, rhs) ==
    IF EMU_INTRINSICS(b) THEN [i \in Lanes |-> FDiv(r[i], rhs[i])]
    ELSE mm512_div(r, rhs)

(***************************************************************************)
(* Inputs of the operations.                                               *)
(***************************************************************************)
\* lane values: both zeros, finite values of both signs, both infinities, NaN
LaneSamples ==
    <<Zero(0), Zero(1), RealInt(1), RealInt(-1), RealInt(2), RealInt(-3),
      Inf(0), Inf(1), NaN(0)>>

\* the register whose lanes run through LaneSamples from position rot
SampleReg(rot) ==
    [i \in Lanes |-> LaneSamples[((i + rot) % Len(LaneSamples)) + 1]]

\* the register whose lane i holds base + i: every lane tells where it came from
Tagged(base) == [i \in Lanes |-> RealInt(base + i)]

ArithRegs == {SampleReg(rot) : rot \in 0..(Len(LaneSamples) - 1)}

ScalarVals == {LaneSamples[j] : j \in 1..Len(LaneSamples)}

\* largest magnitude of the small int scalars
MaxInt == 3
\* 2^24 + 1 and 2^24 + 3 have no float; 2^24 + 2 has one
IntVals == (-MaxInt..MaxInt) \cup {16777217, 16777218, 16777219, -16777217}

\* scalars of the other precision
OtherVals == ScalarVals \cup {RealInt(16777217), RealInt(-16777219), Fin(0, 1, 2)}

(***************************************************************************)
(* realv state machine: a build and one call of an operation.              *)
(***************************************************************************)
VLENS == {1, 2, 4, 8, 16}

RealvInit ==
    /\ REAL_BYTES \in {4, 8}
    /\ VLEN \in VLENS
    /\ pc = "start"
    /\ op = "none"
    /\ args = <<>>
    /\ res = <<>>
    /\ nodes = <<>>
    /\ visitor = "none"
    /\ stack = <<>>
    /\ trace = <<>>
    /\ _numOps = 0
    /\ NoHelper

\* the call of operation o with arguments a, whose outcome in build b is f[b]
Call(o, a, f) ==
    /\ pc = "start"
    /\ pc' = "done"
    /\ op' = o
    /\ args' = a
    /\ res' = f
    /\ UNCHANGED <<REAL_BYTES, VLEN>>
    /\ UNCHANGED visitorVars
    /\ UNCHANGED codegenVars

\* realv::operator=(REAL val)
AssignReal ==
    /\ pc = "start"
    /\ \E val \in ScalarVals :
           Call("operator=(REAL)", [val |-> val],
                [b \in Builds |-> Returned(Broadcast(b, val))])

\* realv::operator=(int val)
AssignInt ==
    /\ pc = "start"
    /\ \E val \in IntVals :
           Call("operator=(int)", [val |-> val],
                [b \in Builds |-> Returned(Broadcast(b, RealOfInt(val)))])

\* realv::operator=(double val) (REAL_BYTES == 4), operator=(float val) (otherwise)
AssignOther ==
    /\ pc = "start"
    /\ \E val \in OtherVals :
           Call("operator=(other)", [val |-> val],
                [b \in Builds |-> Returned(Broadcast(b, RealOfOther(val)))])

\* realv::operator-()
OpNegate ==
    /\ pc = "start"
    /\ \E r \in ArithRegs :
           Call("operator-()", [r |-> r],
                [b \in Builds |-> Returned(Negate(b, r))])

\* realv::operator+(realv), operator-(realv), operator*(realv), operator/(realv)
OpAdd ==
    /\ pc = "start"
    /\ \E r \in ArithRegs, rhs \in ArithRegs :
           Call("operator+", [r |-> r, rhs |-> rhs],
                [b \in Builds |-> Returned(Add(b, r, rhs))])

OpSub ==
    /\ pc = "start"
    /\ \E r \in ArithRegs, rhs \in ArithRegs :
           Call("operator-", [r |-> r, rhs |-> rhs],
                [b \in Builds |-> Returned(Sub(b, r, rhs))])

OpMul ==
    /\ pc = "start"
    /\ \E r \in ArithRegs, rhs \in ArithRegs :
           Call("operator*", [r |-> r, rhs |-> rhs],
                [b \in Builds |-> Returned(Mul(b, r, rhs))])

OpDiv ==
    /\ pc = "start"
    /\ \E r \in ArithRegs, rhs \in ArithRegs :
           Call("operator/", [r |-> r, rhs |-> rhs],
                [b \in Builds |-> Returned(Div(b, r, rhs))])

\* realv::operator+(REAL), operator-(REAL), operator*(REAL), operator/(REAL):
\* rn = rhs, then the register form
OpAddScalar ==
    /\ pc = "start"
    /\ \E r \in ArithRegs, rhs \in ScalarVals :
           Call("operator+(REAL)", [r |-> r, rhs |-> rhs],
                [b \in Builds |-> Returned(Add(b, r, Broadcast(b, rhs)))])

OpSubScalar ==
    /\ pc = "start"
    /\ \E r \in ArithRegs, rhs \in ScalarVals :
           Call("operator-(REAL)", [r |-> r, rhs |-> rhs],
                [b \in Builds |-> Returned(Sub(b, r, Broadcast(b, rhs)))])

OpMulScalar ==
    /\ pc = "start"
    /\ \E r \in ArithRegs, rhs \in ScalarVals :
           Call("operator*(REAL)", [r |-> r, rhs |-> rhs],
                [b \in Builds |-> Returned(Mul(b, r, Broadcast(b, rhs)))])

OpDivScalar ==
    /\ pc = "start"
    /\ \E r \in ArithRegs, rhs \in ScalarVals :
           Call("operator/(REAL)", [r |-> r, rhs |-> rhs],
                [b \in Builds |-> Returned(Div(b, r, Broadcast(b, rhs)))])

(***************************************************************************)
(* realv.hpp: align and permute.                                           *)
(***************************************************************************)
\* (k >> i) & 1
Bit(k, i) == (k \div (2 ^ i)) % 2

RECURSIVE BitAnd(_, _)
\* x & y
BitAnd(x, y) ==
    IF x = 0 \/ y = 0 THEN 0
    ELSE 2 * BitAnd(x \div 2, y \div 2) + (IF x % 2 = 1 /\ y % 2 = 1 THEN 1 ELSE 0)

\* MMASK(k1): the cast to __mmask16 or __mmask8
MMASK(k1) == k1 % (2 ^ V512_ELEMS)

\* _mm512_alignr_epi32(a, b, imm8) on sixteen 32-bit elements
mm512_alignr_epi32(a, b, imm8) ==
    [j \in 0..15 |-> LET t == j + (imm8 % 16) IN IF t < 16 THEN b[t] ELSE a[t - 16]]

\* _mm512_alignr_epi64(a, b, imm8) on eight 64-bit elements
mm512_alignr_epi64(a, b, imm8) ==
    [j \in 0..7 |-> LET t == j + (imm8 % 8) IN IF t < 8 THEN b[t] ELSE a[t - 8]]

\* the sixteen 32-bit halves of eight 64-bit lanes, and the lanes back from
\* the halves (a lane put together from halves of two lanes is Torn)
Halves(v) == [j \in 0..15 |-> <<v[j \div 2], j % 2>>]
Torn == [k |-> "torn", s |-> 0, n |-> 0, d |-> 1]
Whole(h) ==
    [i \in 0..7 |->
        IF h[2 * i][2] = 0 /\ h[2 * i + 1] = <<h[2 * i][1], 1>> THEN h[2 * i][1] ELSE Torn]

\* _mm512_mask_alignr_epi32 / _mm512_mask_alignr_epi64 (src, k, a, b, imm8)
mm512_mask_alignr_epi32(src, k, a, b, imm8) ==
    LET tmp == mm512_alignr_epi32(a, b, imm8)
    IN  [j \in 0..15 |-> IF Bit(k, j) = 1 THEN tmp[j] ELSE src[j]]
mm512_mask_alignr_epi64(src, k, a, b, imm8) ==
    LET tmp == mm512_alignr_epi64(a, b, imm8)
    IN  [j \in 0..7 |-> IF Bit(k, j) = 1 THEN tmp[j] ELSE src[j]]

\* _mm512_permutevar_epi32(idx, a) / _mm512_permutexvar_epi64(idx, a)
mm512_permutevar_epi32(idx, a) == [j \in 0..15 |-> a[idx[j] % 16]]
mm512_permutexvar_epi64(idx, a) == [j \in 0..7 |-> a[idx[j] % 8]]

\* _mm512_mask_permutevar_epi32 / _mm512_mask_permutexvar_epi64 (src, k, idx, a)
mm512_mask_permutevar_epi32(src, k, idx, a) ==
    [j \in 0..15 |-> IF Bit(k, j) = 1 THEN a[idx[j] % 16] ELSE src[j]]
mm512_mask_permutexvar_epi64(src, k, idx, a) ==
    [j \in 0..7 |-> IF Bit(k, j) = 1 THEN a[idx[j] % 8] ELSE src[j]]

\* _mm512_permutex2var_epi32(a, idx, b) / _mm512_permutex2var_epi64(a, idx, b)
mm512_permutex2var_epi32(a, idx, b) ==
    [j \in 0..15 |-> IF (idx[j] \div 16) % 2 = 1 THEN b[idx[j] % 16] ELSE a[idx[j] % 16]]
mm512_permutex2var_epi64(a, idx, b) ==
    [j \in 0..7 |-> IF (idx[j] \div 8) % 2 = 1 THEN b[idx[j] % 8] ELSE a[idx[j] % 8]]

\* v.r[l]: lane l of v, or whatever the read finds (oob) when l is past the array
ReadLane(v, l, oob) == IF l \in Lanes THEN v[l] ELSE oob

\* a realv_align whose second loop reads v3 again
realv_align_wrongreg(b, res0, v2, v3, count) ==
    IF EMU_INTRINSICS(b)
    THEN Returned([i \in Lanes |->
            IF i < VLEN - count THEN v3[i + count] ELSE v3[i + count - VLEN]])
    ELSE IF REAL_BYTES = 4 THEN Returned(mm512_alignr_epi32(v2, v3, count))
    ELSE IF b.ARCH_KNC
    THEN Returned(Whole(mm512_alignr_epi32(Halves(v2), Halves(v3), count * 2)))
    ELSE Returned(mm512_alignr_epi64(v2, v3, count))

\* realv_align(res, v2, v3, count)
realv_align(b, res0, v2, v3, count) ==
    IF EMU_INTRINSICS(b)
    THEN Returned([i \in Lanes |->
            IF i < VLEN - count THEN v3[i + count] ELSE v2[i + count - VLEN]])
    ELSE IF REAL_BYTES = 4 THEN Returned(mm512_alignr_epi32(v2, v3, count))
    ELSE IF b.ARCH_KNC
    THEN Returned(Whole(mm512_alignr_epi32(Halves(v2), Halves(v3), count * 2)))
    ELSE Returned(mm512_alignr_epi64(v2, v3, count))

\* realv_align(res, v2, v3, count, k1)
realv_align_mask(b, res0, v2, v3, count, k1) ==
    IF EMU_INTRINSICS(b)
    THEN Returned([i \in Lanes |->
            IF i < VLEN - count
            THEN (IF Bit(k1, i) = 1 THEN v3[i + count] ELSE res0[i])
            ELSE (IF Bit(k1, i) = 1 THEN v2[i + count - VLEN] ELSE res0[i])])
    ELSE IF REAL_BYTES = 4
    THEN Returned(mm512_mask_alignr_epi32(res0, MMASK(k1), v2, v3, count))
    ELSE IF b.ARCH_KNC THEN Exited
    ELSE Returned(mm512_mask_alignr_epi64(res0, MMASK(k1), v2, v3, count))

\* a realv_permute whose 32-bit branch keeps three index bits only
realv_permute_narrow(b, res0, ctrl, v3, oob) ==
    IF EMU_INTRINSICS(b)
    THEN LET tmp == v3
         IN  Returned([i \in Lanes |-> ReadLane(tmp, ctrl[i], oob)])
    ELSE IF REAL_BYTES = 4 THEN Returned([j \in 0..15 |-> v3[ctrl[j] % 8]])
    ELSE IF b.ARCH_KNC THEN Exited
    ELSE Returned(mm512_permutexvar_epi64(ctrl, v3))

\* realv_permute(res, ctrl, v3)
realv_permute(b, res0, ctrl, v3, oob) ==
    IF EMU_INTRINSICS(b)
    THEN LET tmp == v3
         IN  Returned([i \in Lanes |-> ReadLane(tmp, ctrl[i], oob)])
    ELSE IF REAL_BYTES = 4 THEN Returned(mm512_permutevar_epi32(ctrl, v3))
    ELSE IF b.ARCH_KNC THEN Exited
    ELSE Returned(mm512_permutexvar_epi64(ctrl, v3))

\* a masked realv_permute whose intrinsics zero the lanes that are not selected
realv_permute_maskz(b, res0, ctrl, v3, k1, oob) ==
    IF EMU_INTRINSICS(b)
    THEN LET tmp == v3
         IN  Returned([i \in Lanes |->
                IF Bit(k1, i) = 1 THEN ReadLane(tmp, ctrl[i], oob) ELSE res0[i]])
    ELSE IF REAL_BYTES = 4
    THEN Returned(mm512_mask_permutevar_epi32(mm512_setzero, MMASK(k1), ctrl, v3))
    ELSE IF b.ARCH_KNC THEN Exited
    ELSE Returned(mm512_mask_permutexvar_epi64(mm512_setzero, MMASK(k1), ctrl, v3))

\* realv_permute(res, ctrl, v3, k1)
realv_permute_mask(b, res0, ctrl, v3, k1, oob) ==
    IF EMU_INTRINSICS(b)
    THEN LET tmp == v3
         IN  Returned([i \in Lanes |->
                IF Bit(k1, i) = 1 THEN ReadLane(tmp, ctrl[i], oob) ELSE res0[i]])
    ELSE IF REAL_BYTES = 4
    THEN Returned(mm512_mask_permutevar_epi32(res0, MMASK(k1), ctrl, v3))
    ELSE IF b.ARCH_KNC THEN Exited
    ELSE Returned(mm512_mask_permutexvar_epi64(res0, MMASK(k1), ctrl, v3))

\* a realv_permute2 whose emulation reads a where the select bit is set
realv_permute2_swapped(bld, res0, ctrl, a, b, oob) ==
    IF EMU_INTRINSICS(bld)
    THEN LET tmpa == a
             tmpb == b
         IN  Returned([i \in Lanes |->
                LET sel == BitAnd(ctrl[i], CTRL_SEL_BIT)
                    idx == BitAnd(ctrl[i], CTRL_IDX_MASK)
                IN  IF sel # 0 THEN ReadLane(tmpa, idx, oob) ELSE ReadLane(tmpb, idx, oob)])
    ELSE IF bld.ARCH_KNC THEN Exited
    ELSE IF REAL_BYTES = 4 THEN Returned(mm512_permutex2var_epi32(a, ctrl, b))
    ELSE Returned(mm512_permutex2var_epi64(a, ctrl, b))

\* realv_permute2(res, ctrl, a, b)
realv_permute2(bld, res0, ctrl, a, b, oob) ==
    IF EMU_INTRINSICS(bld)
    THEN LET tmpa == a
             tmpb == b
         IN  Returned([i \in Lanes |->
                LET sel == BitAnd(ctrl[i], CTRL_SEL_BIT)
                    idx == BitAnd(ctrl[i], CTRL_IDX_MASK)
                IN  IF sel # 0 THEN ReadLane(tmpb, idx, oob) ELSE ReadLane(tmpa, idx, oob)])
    ELSE IF bld.ARCH_KNC THEN Exited
    ELSE IF REAL_BYTES = 4 THEN Returned(mm512_permutex2var_epi32(a, ctrl, b))
    ELSE Returned(mm512_permutex2var_epi64(a, ctrl, b))

\* registers to move lanes of: <<v2, v3, res before the call>>
MoveRegs ==
    {<<Tagged(VLEN), Tagged(0), Tagged(2 * VLEN)>>,
     <<SampleReg(0), SampleReg(3), SampleReg(5)>>}

\* masks: none, all, first lane, last lane, every other lane, and the same
\* with a bit past the lanes
MaskSamples ==
    LET all == (2 ^ VLEN) - 1
        low == {0, all, 1, 2 ^ (VLEN - 1), all \div 3}
    IN  low \cup {2 ^ VLEN + all, 2 ^ VLEN}

\* control registers of lanes ((m * i + c) % M) + h: constants (m = 0),
\* rotations (m = 1), reversed rotations (m = M - 1)
CtrlRegs(M, H) ==
    {[i \in Lanes |-> ((m * i + c) % M) + h] : m \in {0, 1, M - 1}, c \in 0..(M - 1), h \in H}

\* what a read past the end of a register may find
OobVals == {RealInt(-7), NaN(1)}

\* realv_align(res, v2, v3, count)
OpAlign ==
    /\ pc = "start"
    /\ \E rs \in MoveRegs, count \in 0..VLEN :
           Call("realv_align", [res |-> rs[3], v2 |-> rs[1], v3 |-> rs[2], count |-> count],
                [b \in Builds |-> realv_align(b, rs[3], rs[1], rs[2], count)])

\* realv_align(res, v2, v3, count, k1)
OpAlignMask ==
    /\ pc = "start"
    /\ \E rs \in MoveRegs, count \in 0..VLEN, k1 \in MaskSamples :
           Call("realv_align(k1)",
                [res |-> rs[3], v2 |-> rs[1], v3 |-> rs[2], count |-> count, k1 |-> k1],
                [b \in Builds |-> realv_align_mask(b, rs[3], rs[1], rs[2], count, k1)])

\* realv_permute(res, ctrl, v3)
OpPermute ==
    /\ pc = "start"
    /\ \E rs \in MoveRegs, ctrl \in CtrlRegs(VLEN, {0, VLEN}), oob \in OobVals :
           Call("realv_permute", [res |-> rs[3], ctrl |-> ctrl, v3 |-> rs[2], oob |-> oob],
                [b \in Builds |-> realv_permute(b, rs[3], ctrl, rs[2], oob)])

\* realv_permute(res, ctrl, v3, k1)
OpPermuteMask ==
    /\ pc = "start"
    /\ \E rs \in MoveRegs, ctrl \in CtrlRegs(VLEN, {0, VLEN}), k1 \in MaskSamples,
          oob \in OobVals :
           Call("realv_permute(k1)",
                [res |-> rs[3], ctrl |-> ctrl, v3 |-> rs[2], k1 |-> k1, oob |-> oob],
                [b \in Builds |-> realv_permute_mask(b, rs[3], ctrl, rs[2], k1, oob)])

\* realv_permute2(res, ctrl, a, b)
OpPermute2 ==
    /\ pc = "start"
    /\ \E rs \in MoveRegs, ctrl \in CtrlRegs(2 * V512_ELEMS, {0, 4 * V512_ELEMS}),
          oob \in OobVals :
           Call("realv_permute2",
                [res |-> rs[3], ctrl |-> ctrl, a |-> rs[1], b |-> rs[2], oob |-> oob],
                [bld \in Builds |-> realv_permute2(bld, rs[3], ctrl, rs[1], rs[2], oob)])

(***************************************************************************)
(* realv.hpp: the emulated permutes called with res bound to the object of *)
(* a source register.  The arguments are references: s maps the objects    *)
(* of the call (the registers and the temp copies) to their lanes, and the *)
(* loop writes its lanes one after the other into the object res names.    *)
(***************************************************************************)
\* a loop that reads the source register itself
PermuteSource_noCopy(tmp, v) == v

\* the register the loop reads: the temp copy taken before the loop
PermuteSource(tmp, v) == tmp

RECURSIVE EmuPermuteFrom(_, _, _, _, _, _, _)
\* for (int i = 0; i < VLEN; i++) res.r[i] = tmp.r[ctrl.ci[i]], from lane
\* i on, for the lanes of sel (all of them without mask, those with
\* (k1 >> i) & 1 with mask)
EmuPermuteFrom(s, res0, ctrl, src, sel, oob, i) ==
    IF i >= VLEN THEN s
    ELSE EmuPermuteFrom(IF i \in sel
                        THEN [s EXCEPT ![res0][i] = ReadLane(s[src], ctrl[i], oob)]
                        ELSE s,
                        res0, ctrl, src, sel, oob, i + 1)

\* the emulated realv_permute on the objects of s: realv tmp = v3, the loop
EmuPermute(s, res0, ctrl, v3, sel, oob) ==
    EmuPermuteFrom([s EXCEPT !.tmp = s[v3]], res0, ctrl, PermuteSource("tmp", v3),
                   sel, oob, 0)

RECURSIVE EmuPermute2From(_, _, _, _, _, _, _)
\* the loop of the emulated realv_permute2 from lane i on
EmuPermute2From(s, res0, ctrl, srca, srcb, oob, i) ==
    IF i >= VLEN THEN s
    ELSE LET sel == BitAnd(ctrl[i], CTRL_SEL_BIT)
             idx == BitAnd(ctrl[i], CTRL_IDX_MASK)
             val == IF sel # 0 THEN ReadLane(s[srcb], idx, oob)
                    ELSE ReadLane(s[srca], idx, oob)
         IN  EmuPermute2From([s EXCEPT ![res0][i] = val], res0, ctrl, srca, srcb, oob, i + 1)

\* the emulated realv_permute2 on the objects of s: realv tmpa = a, tmpb = b,
\* the loop
EmuPermute2(s, res0, ctrl, a, b, oob) ==
    EmuPermute2From([s EXCEPT !.tmpa = s[a], !.tmpb = s[b]], res0, ctrl,
                    PermuteSource("tmpa", a), PermuteSource("tmpb", b), oob, 0)

\* realv_permute(v3, ctrl, v3)
OpPermuteInPlace ==
    /\ pc = "start"
    /\ \E rs \in MoveRegs, ctrl \in CtrlRegs(VLEN, {0, VLEN}), oob \in OobVals :
           LET s == [v3 |-> rs[2], tmp |-> rs[2]]
           IN  Call("realv_permute in place",
                    [res |-> rs[2], ctrl |-> ctrl, v3 |-> rs[2], oob |-> oob],
                    [b \in Builds |->
                        IF EMU_INTRINSICS(b)
                        THEN Returned(EmuPermute(s, "v3", ctrl, "v3", Lanes, oob).v3)
                        ELSE realv_permute(b, rs[2], ctrl, rs[2], oob)])

\* realv_permute(v3, ctrl, v3, k1)
OpPermuteMaskInPlace ==
    /\ pc = "start"
    /\ \E rs \in MoveRegs, ctrl \in CtrlRegs(VLEN, {0, VLEN}), k1 \in MaskSamples,
          oob \in OobVals :
           LET s == [v3 |-> rs[2], tmp |-> rs[2]]
               sel == {i \in Lanes : Bit(k1, i) = 1}
           IN  Call("realv_permute(k1) in place",
                    [res |-> rs[2], ctrl |-> ctrl, v3 |-> rs[2], k1 |-> k1, oob |-> oob],
                    [b \in Builds |->
                        IF EMU_INTRINSICS(b)
                        THEN Returned(EmuPermute(s, "v3", ctrl, "v3", sel, oob).v3)
                        ELSE realv_permute_mask(b, rs[2], ctrl, rs[2], k1, oob)])

\* realv_permute2(a, ctrl, a, b) and realv_permute2(b, ctrl, a, b)
OpPermute2InPlace ==
    /\ pc = "start"
    /\ \E rs \in MoveRegs, ctrl \in CtrlRegs(2 * V512_ELEMS, {0, 4 * V512_ELEMS}),
          oob \in OobVals, dst \in {"a", "b"} :
           LET s == [a |-> rs[1], b |-> rs[2], tmpa |-> rs[1], tmpb |-> rs[2]]
           IN  Call("realv_permute2 in place",
                    [res |-> s[dst], dst |-> dst, ctrl |-> ctrl, a |-> rs[1], b |-> rs[2],
                     oob |-> oob],
                    [bld \in Builds |->
                        IF EMU_INTRINSICS(bld)
                        THEN Returned(EmuPermute2(s, dst, ctrl, "a", "b", oob)[dst])
                        ELSE realv_permute2(bld, s[dst], ctrl, rs[1], rs[2], oob)])

(***************************************************************************)
(* realv.hpp: comparators, load and store.                                 *)
(***************************************************************************)
RECURSIVE LessFrom(_, _, _)
\* realv::operator<(rhs), the loop from lane j on
LessFrom(r, rhs, j) ==
    IF j >= VLEN THEN FALSE
    ELSE IF FLt(r[j], rhs[j]) THEN TRUE
    ELSE IF FGt(r[j], rhs[j]) THEN FALSE
    ELSE LessFrom(r, rhs, j + 1)

RECURSIVE LessFrom_noGreater(_, _, _)
\* an operator< that goes on to the next lane when r[j] > rhs[j]
LessFrom_noGreater(r, rhs, j) ==
    IF j >= VLEN THEN FALSE
    ELSE IF FLt(r[j], rhs[j]) THEN TRUE
    ELSE LessFrom_noGreater(r, rhs, j + 1)

Less_noGreater(r, rhs) == LessFrom_noGreater(r, rhs, 0)

\* realv::operator<(rhs)
Less(r, rhs) == LessFrom(r, rhs, 0)

RECURSIVE GreaterFrom(_, _, _)
\* realv::operator>(rhs), the loop from lane j on
GreaterFrom(r, rhs, j) ==
    IF j >= VLEN THEN FALSE
    ELSE IF FGt(r[j], rhs[j]) THEN TRUE
    ELSE IF FLt(r[j], rhs[j]) THEN FALSE
    ELSE GreaterFrom(r, rhs, j + 1)

\* realv::operator>(rhs)
Greater(r, rhs) == GreaterFrom(r, rhs, 0)

RECURSIVE EqualFrom(_, _, _)
\* realv::operator==(rhs), the loop from lane j on
EqualFrom(r, rhs, j) ==
    IF j >= VLEN THEN TRUE
    ELSE IF FNe(r[j], rhs[j]) THEN FALSE
    ELSE EqualFrom(r, rhs, j + 1)

\* an operator== that compares the bits of the lanes
Equal_bits(r, rhs) == r = rhs

\* realv::operator==(rhs)
Equal(r, rhs) == EqualFrom(r, rhs, 0)

\* _mm512_load_ps / _mm512_load_pd (from)
mm512_load(from) == [i \in Lanes512 |-> from[i]]

\* _mm512_stream_ps / _mm512_stream_pd / _mm512_storenrngo_ps /
\* _mm512_storenrngo_pd (to, v): memory after the sixteen or eight lanes of v
\* were written to the realv at to
mm512_stream(mem, to, v) == [mem EXCEPT ![to] = [i \in Lanes512 |-> v[i]]]
mm512_storenrngo(mem, to, v) == [mem EXCEPT ![to] = [i \in Lanes512 |-> v[i]]]

\* realv::loadFrom(from)
loadFrom(b, from) ==
    IF EMU_INTRINSICS(b) THEN [i \in Lanes |-> from[i]]
    ELSE mm512_load(from)

\* a storeTo whose loops stop one lane early
storeTo_short(b, r, mem, to) ==
    LET loop == [mem EXCEPT ![to] = [i \in Lanes |-> IF i < VLEN - 1 THEN r[i] ELSE mem[to][i]]]
    IN  IF b.INTEL_COMPILER /\ VLEN > 1 THEN loop
        ELSE IF EMU_INTRINSICS(b) THEN loop
        ELSE IF REAL_BYTES = 4
        THEN (IF b.ARCH_KNC THEN mm512_storenrngo(mem, to, r) ELSE mm512_stream(mem, to, r))
        ELSE (IF b.ARCH_KNC THEN mm512_storenrngo(mem, to, r) ELSE mm512_stream(mem, to, r))

\* realv::storeTo(to): memory after the call
storeTo(b, r, mem, to) ==
    IF b.INTEL_COMPILER /\ VLEN > 1 THEN [mem EXCEPT ![to] = [i \in Lanes |-> r[i]]]
    ELSE IF EMU_INTRINSICS(b) THEN [mem EXCEPT ![to] = [i \in Lanes |-> r[i]]]
    ELSE IF REAL_BYTES = 4
    THEN (IF b.ARCH_KNC THEN mm512_storenrngo(mem, to, r) ELSE mm512_stream(mem, to, r))
    ELSE (IF b.ARCH_KNC THEN mm512_storenrngo(mem, to, r) ELSE mm512_stream(mem, to, r))

\* lane values of the registers that are compared
CmpLaneVals == <<Zero(1), Zero(0), RealInt(1), NaN(0)>>

\* register number n: lanes of 1 but for the first and the last lane
CmpReg(n) ==
    LET L == Len(CmpLaneVals)
    IN  [i \in Lanes |->
            IF i = 0 THEN CmpLaneVals[(n \div L) + 1]
            ELSE IF i = VLEN - 1 THEN CmpLaneVals[(n % L) + 1]
            ELSE RealInt(1)]

NumCmpRegs == Len(CmpLaneVals) * Len(CmpLaneVals)

\* number of realv objects in the memory the loads and stores work on
NumVecs == 2

\* memories of NumVecs aligned realv objects
Memories ==
    {[a \in 0..(NumVecs - 1) |-> Tagged((a + 3) * VLEN)],
     [a \in 0..(NumVecs - 1) |-> SampleReg(a + 1)]}

\* the three comparators on every ordered pair of three registers
OpCompare ==
    /\ pc = "start"
    /\ \E l \in 0..(NumCmpRegs - 1), m \in 0..(NumCmpRegs - 1), n \in 0..(NumCmpRegs - 1) :
           /\ l <= m
           /\ m <= n
           /\ LET regs == <<CmpReg(l), CmpReg(m), CmpReg(n)>>
                  P == (1..3) \X (1..3)
              IN  \E out \in {Returned(
                            [lt |-> [p \in P |-> Less(regs[p[1]], regs[p[2]])],
                             gt |-> [p \in P |-> Greater(regs[p[1]], regs[p[2]])],
                             eq |-> [p \in P |-> Equal(regs[p[1]], regs[p[2]])]])} :
                      Call("compare", [regs |-> regs], [b \in Builds |-> out])

\* realv::loadFrom(from)
OpLoadFrom ==
    /\ pc = "start"
    /\ \E mem \in Memories, from \in 0..(NumVecs - 1) :
           Call("loadFrom", [mem |-> mem, from |-> from],
                [b \in Builds |-> Returned(loadFrom(b, mem[from]))])

\* realv::storeTo(to)
OpStoreTo ==
    /\ pc = "start"
    /\ \E r \in ArithRegs \cup {Tagged(0)}, mem \in Memories, to \in 0..(NumVecs - 1) :
           /\ pc' = "stored"
           /\ op' = "storeTo"
           /\ args' = [r |-> r, mem |-> mem, to |-> to]
           /\ res' = [b \in IccBuilds |-> Returned([r |-> r, mem |-> storeTo(b, r, mem, to)])]
    /\ UNCHANGED <<REAL_BYTES, VLEN>>
    /\ UNCHANGED visitorVars
    /\ UNCHANGED codegenVars

\* realv::loadFrom(to) of another register, after the store
OpLoadBack ==
    /\ pc = "stored"
    /\ pc' = "done"
    /\ op' = "storeTo;loadFrom"
    /\ args' = args
    /\ res' = [b \in IccBuilds |->
                  Returned([r |-> res[b].v.r, mem |-> res[b].v.mem,
                            loaded |-> loadFrom(b, res[b].v.mem[args.to])])]
    /\ UNCHANGED <<REAL_BYTES, VLEN>>
    /\ UNCHANGED visitorVars
    /\ UNCHANGED codegenVars


\* a MAP4321 with the stride of y taken for the stride of x
MAP4321_ystride(n, i, j, k, dn, dx, dy, dz) == n + dn * (i + dy * (j + dy * k))

\* MAP4321: linear index of (n, i, j, k) in a dn * dx * dy * dz block, n
\* unit stride, then x, y, z
MAP4321(n, i, j, k, dn, dx, dy, dz) == n + dn * (i + dx * (j + dy * k))

\* fold extents <<VLEN_N, VLEN_X, VLEN_Y, VLEN_Z>> whose product is VLEN
Folds ==
    {f \in (1..VLEN) \X (1..VLEN) \X (1..VLEN) \X (1..VLEN) :
        f[1] * f[2] * f[3] * f[4] = VLEN}

\* the coordinates <<n, i, j, k>> the asserts of operator() let through
Coords(f) == (0..(f[1] - 1)) \X (0..(f[2] - 1)) \X (0..(f[3] - 1)) \X (0..(f[4] - 1))

\* realv::operator()(n, i, j, k) const: the lane the returned reference names
AccessConst(f, c) == MAP4321(c[1], c[2], c[3], c[4], f[1], f[2], f[3], f[4])

\* realv::operator()(n, i, j, k): the const accessor, with the const cast away
Access(f, c) == AccessConst(f, c)

\* realv::operator()(n, i, j, k), const and not, at every coordinate of a fold
OpAccess ==
    /\ pc = "start"
    /\ \E f \in Folds :
           \E out \in {Returned([c \in Coords(f) |->
                          [const |-> AccessConst(f, c), nonconst |-> Access(f, c)]])} :
               Call("operator()", [fold |-> f, r |-> Tagged(0)], [b \in Builds |-> out])

RealvNext ==
    \/ AssignReal
    \/ AssignInt
    \/ AssignOther
    \/ OpNegate
    \/ OpAdd
    \/ OpSub
    \/ OpMul
    \/ OpDiv
    \/ OpAddScalar
    \/ OpSubScalar
    \/ OpMulScalar
    \/ OpDivScalar
    \/ OpAlign
    \/ OpAlignMask
    \/ OpPermute
    \/ OpPermuteMask
    \/ OpPermute2
    \/ OpCompare
    \/ OpLoadFrom
    \/ OpStoreTo
    \/ OpLoadBack
    \/ OpAccess
    \/ OpPermuteInPlace
    \/ OpPermuteMaskInPlace
    \/ OpPermute2InPlace

SpecRealv == RealvInit /\ [][RealvNext]_vars

(***************************************************************************)
(* Build configuration of realv.hpp: the preprocessor's pass over the      *)
(* precision block, the emulation block and the declaration of the union.  *)
(***************************************************************************)
\* largest VLEN a build is configured with
MaxVlen == 17

\* values of the macro REAL_BYTES; an undefined macro is 0 in #if
BuildPrecisions == {0, 2, 4, 8, 16}

BuildInit ==
    /\ REAL_BYTES \in BuildPrecisions
    /\ VLEN \in 1..MaxVlen
    /\ pc = "precision"
    /\ op = "none"
    /\ args \in [INTRIN512 : BOOLEAN, ARCH_KNC : {FALSE}]
    /\ res = [error |-> "", warnings |-> {}, EMU_INTRINSICS |-> FALSE, realv |-> <<>>]
    /\ nodes = <<>>
    /\ visitor = "none"
    /\ stack = <<>>
    /\ trace = <<>>
    /\ _numOps = 0
    /\ NoHelper

\* a precision block that takes a 16-byte REAL as well
PrecisionSet_wide(rb) == rb \in {4, 8, 16}

\* #if REAL_BYTES == 4 ... #elif REAL_BYTES == 8 ... : a branch defines REAL
PrecisionSet(rb) == rb = 4 \/ rb = 8

\* #if REAL_BYTES == 4 ... #elif REAL_BYTES == 8 ... #else #error
ConfigPrecision ==
    /\ pc = "precision"
    /\ op' = "precision"
    /\ IF PrecisionSet(REAL_BYTES)
       THEN pc' = "emulation" /\ res' = res
       ELSE /\ pc' = "failed"
            /\ res' = [res EXCEPT !.error = "REAL_BYTES not set to 4 or 8"]
    /\ UNCHANGED <<REAL_BYTES, VLEN, args>>
    /\ UNCHANGED visitorVars
    /\ UNCHANGED codegenVars

\* #if VLEN == 1 ... #elif VLEN != V512_ELEMS ... #elif !defined(INTRIN512)
ConfigEmulation ==
    /\ pc = "emulation"
    /\ pc' = "union"
    /\ op' = "emulation"
    /\ res' = [res EXCEPT
                  !.EMU_INTRINSICS = EMU_INTRINSICS(args),
                  !.warnings =
                      IF VLEN = 1 THEN {}
                      ELSE IF VLEN # V512_ELEMS
                      THEN {"Emulating intrinsics because VLEN elements != 512 bits"}
                      ELSE IF ~args.INTRIN512
                      THEN {"Emulating 512-bit intrinsics because INTRIN512 is not defined"}
                      ELSE {}]
    /\ UNCHANGED <<REAL_BYTES, VLEN, args>>
    /\ UNCHANGED visitorVars
    /\ UNCHANGED codegenVars

\* union realv: REAL r[VLEN], CTRL_INT ci[VLEN], and the 512-bit members
\* #ifndef EMU_INTRINSICS
DeclareRealv ==
    /\ pc = "union"
    /\ pc' = "built"
    /\ op' = "union realv"
    /\ res' = [res EXCEPT !.realv = [r |-> VLEN, ci |-> VLEN, m512 |-> ~res.EMU_INTRINSICS]]
    /\ UNCHANGED <<REAL_BYTES, VLEN, args>>
    /\ UNCHANGED visitorVars
    /\ UNCHANGED codegenVars

BuildNext ==
    \/ ConfigPrecision
    \/ ConfigEmulation
    \/ DeclareRealv

SpecBuild == BuildInit /\ [][BuildNext]_vars

(***************************************************************************)
(* Cpp.hpp: CppVecPrintHelper, the printer of vector reads.  A GridPoint   *)
(* is [grid, args]: args gives every dimension of the grid an index, an    *)
(* offset from the loop index of the dimension ("x+1") or a constant.      *)
(***************************************************************************)
StepDim == "t"
DomainDims == {"x", "y", "z"}

\* the dimensions of the grids: data(t, x), rho(x, y, z), coef(t), delta_t,
\* and tab(x, m) with the misc dimension m
GridDims(g) ==
    CASE g = "data" -> {"t", "x"}
      [] g = "rho" -> {"x", "y", "z"}
      [] g = "coef" -> {"t"}
      [] g = "tab" -> {"x", "m"}
      [] g = "delta_t" -> {}

\* the index "d + v" and the constant index v
Ofs(v) == [k |-> "ofs", v |-> v]
Const(v) == [k |-> "const", v |-> v]

\* grid points of the equations
Data(dt, dx) == [grid |-> "data", args |-> [d \in {"t", "x"} |-> Ofs(IF d = "t" THEN dt ELSE dx)]]
Rho(dx, dy, dz) ==
    [grid |-> "rho",
     args |-> [d \in {"x", "y", "z"} |-> Ofs(IF d = "x" THEN dx ELSE IF d = "y" THEN dy ELSE dz)]]
Coef(dt) == [grid |-> "coef", args |-> [d \in {"t"} |-> Ofs(dt)]]
DeltaT == [grid |-> "delta_t", args |-> <<>>]
Tab(dx, m) == [grid |-> "tab", args |-> [d \in {"x", "m"} |-> IF d = "x" THEN Ofs(dx) ELSE Const(m)]]

\* the accesses of data(t+1,x) = data(t,x-1) + data(t,x) + data(t,x+1), of
\* get_next_vel_x, get_next_vel_y and get_next_vel_z to rho, and of scalars
Points ==
    {Data(0, -1), Data(0, 0), Data(0, 1), Data(1, 0),
     Rho(0, 0, 0), Rho(0, -1, 0), Rho(1, 0, 0), Rho(0, 0, -1),
     Coef(0), DeltaT, Tab(2, 1)}

\* fold shapes: a multiplicity for every domain dimension
Fold(fx, fy, fz) == [d \in DomainDims |-> IF d = "x" THEN fx ELSE IF d = "y" THEN fy ELSE fz]
FoldShapes == {Fold(4, 1, 1), Fold(2, 2, 1), Fold(1, 4, 1)}

fold == _dims._fold
innerDim == _dims._innerDim

\* the dimensions of gp the fold has
FoldDims(gp) == DOMAIN gp.args \cap DomainDims

\* offset of gp modulo the fold multiplicity in dimension d
FoldLocal(gp, d) == gp.args[d].v % fold[d]

\* dimensions where gp is off the fold, looking at positive offsets only
OffDims_positive(gp) ==
    {d \in FoldDims(gp) : gp.args[d].k = "ofs" /\ gp.args[d].v > 0 /\ FoldLocal(gp, d) # 0}

\* the dimensions where gp is off the fold
OffDims(gp) == {d \in FoldDims(gp) : gp.args[d].k = "ofs" /\ FoldLocal(gp, d) # 0}

\* a classification that has forgotten the fallback of disabled unaligned loads
Classify_noFallback(gp) ==
    IF FoldDims(gp) = {} THEN "scalar-broadcast"
    ELSE IF OffDims(gp) = {} THEN "aligned"
    ELSE IF Cardinality(OffDims(gp)) = 1 /\ _allowUnalignedLoads THEN "unaligned"
    ELSE IF Cardinality(OffDims(gp)) > 1 THEN "non-vectorizable"
    ELSE "none"

\* the category of an access: no extent in the fold, all moduli zero, a single
\* non-zero modulo (when unaligned loads are allowed), anything else
Classify(gp) ==
    IF FoldDims(gp) = {} THEN "scalar-broadcast"
    ELSE IF OffDims(gp) = {} THEN "aligned"
    ELSE IF Cardinality(OffDims(gp)) = 1 /\ _allowUnalignedLoads THEN "unaligned"
    ELSE "non-vectorizable"

\* gp moved by v in dimension d
Shift(gp, d, v) == [gp EXCEPT !.args[d].v = @ + v]

\* the two aligned registers a point off the fold in dimension d straddles
LoNeighbor(gp, d) == Shift(gp, d, 0 - FoldLocal(gp, d))
HiNeighbor(gp, d) == Shift(gp, d, fold[d] - FoldLocal(gp, d))

\* lanes of a vector: a position in the fold for every domain dimension
FoldLanes == {c \in [DomainDims -> 0..3] : \A d \in DomainDims : c[d] < fold[d]}

\* the element of the grid at position c of the vector that starts at gp
Elem(gp, c) == [gp EXCEPT !.args = [d \in DOMAIN gp.args |->
                    IF d \in DomainDims THEN [gp.args[d] EXCEPT !.v = @ + c[d]]
                    ELSE gp.args[d]]]

\* value of an aligned vector read: lane c holds the element at gp + c
AlignedVec(gp) == [c \in FoldLanes |-> Elem(gp, c)]

\* value of the lane rotate of registers lo and hi by count in dimension d
AlignVec(lo, hi, d, count) ==
    [c \in FoldLanes |->
        IF c[d] + count < fold[d] THEN lo[[c EXCEPT ![d] = @ + count]]
        ELSE hi[[c EXCEPT ![d] = @ + count - fold[d]]]]

\* value of a broadcast: every lane holds the one element
BroadcastVec(gp) == [c \in FoldLanes |-> gp]

\* the null pointer lookupPointPtr returns; variable names are temp1, temp2, ...
Null == 0

\* the state of the helper, as one value to pass through the calls it makes
Helper ==
    [_vecPtrs |-> _vecPtrs, _ptrOfsLo |-> _ptrOfsLo, _ptrOfsHi |-> _ptrOfsHi,
     _varNum |-> _varNum, os |-> os, calls |-> calls]

\* f with x mapped to y
Put(f, x, y) == [z \in DOMAIN f \cup {x} |-> IF z = x THEN y ELSE f[z]]

\* a base point that keeps the inner-dim index
makeBasePoint_keepInner(gp) == gp

\* CppVecPrintHelper::makeBasePoint: gp with the inner-dim index set to 0
makeBasePoint(gp) ==
    IF innerDim \in DOMAIN gp.args
    THEN [gp EXCEPT !.args[innerDim] = Const(0)]
    ELSE gp

\* a lookup that finds a point by its grid alone
lookupPointPtr_byGrid(h, gp) ==
    IF \E q \in DOMAIN h._vecPtrs : q.grid = gp.grid
    THEN h._vecPtrs[CHOOSE q \in DOMAIN h._vecPtrs : q.grid = gp.grid]
    ELSE Null

\* CppVecPrintHelper::lookupPointPtr: the cached name, or null
lookupPointPtr(h, gp) ==
    IF gp \in DOMAIN h._vecPtrs THEN h._vecPtrs[gp] ELSE Null

\* CppVecPrintHelper::savePointPtr: _vecPtrs[gp] = var
savePointPtr(h, gp, var) ==
    [h EXCEPT !._vecPtrs = Put(@, gp, var),
              !.calls = Append(@, [fn |-> "savePointPtr", gp |-> gp, var |-> var])]

\* the lookup, with the call written down
Lookup(h, gp) ==
    [h EXCEPT !.calls = Append(@, [fn |-> "lookupPointPtr", gp |-> gp,
                                   ret |-> lookupPointPtr(h, gp)])]

\* the helper after the aligned pointer of the base of gp was asked for: a
\* new name is made and saved only when the lookup finds none
WithBasePtr(h, gp) ==
    LET bgp == makeBasePoint(gp)
        h1 == Lookup(h, bgp)
    IN  IF lookupPointPtr(h, bgp) # Null THEN h1
        ELSE LET name == h._varNum + 1
                 h2 == savePointPtr([h1 EXCEPT !._varNum = name], bgp, name)
             IN  [h2 EXCEPT !.os = Append(@, [stmt |-> "ptr", var |-> name, gp |-> bgp])]

\* an offset range that is set by the first access and never widened
Widen_firstOnly(h, p, ofs) ==
    [h EXCEPT !._ptrOfsLo = IF p \in DOMAIN @ THEN @ ELSE Put(@, p, ofs),
              !._ptrOfsHi = IF p \in DOMAIN @ THEN @ ELSE Put(@, p, ofs)]

\* the offset range of pointer p widened to hold ofs
Widen(h, p, ofs) ==
    [h EXCEPT !._ptrOfsLo = IF p \in DOMAIN @ /\ @[p] <= ofs THEN @ ELSE Put(@, p, ofs),
              !._ptrOfsHi = IF p \in DOMAIN @ /\ @[p] >= ofs THEN @ ELSE Put(@, p, ofs)]

\* printAlignedVecRead: the pointer of the base point is made or reused, its
\* offset range widened, and one vector is loaded through it
printAlignedVecRead(h, gp) ==
    LET h1 == WithBasePtr(h, gp)
        p == lookupPointPtr(h1, makeBasePoint(gp))
        h2 == IF innerDim \in DOMAIN gp.args THEN Widen(h1, p, gp.args[innerDim].v) ELSE h1
    IN  [h2 EXCEPT !.os = Append(@, [stmt |-> "load", var |-> p, gp |-> gp])]

\* printUnalignedVecRead: both straddled aligned registers are read, then
\* rotated by the fold-local offset
printUnalignedVecRead(h, gp) ==
    LET d == CHOOSE e \in OffDims(gp) : TRUE
        h1 == printAlignedVecRead(h, LoNeighbor(gp, d))
        h2 == printAlignedVecRead(h1, HiNeighbor(gp, d))
    IN  [h2 EXCEPT !.os = Append(@, [stmt |-> "align", dim |-> d, count |-> FoldLocal(gp, d),
                                     lo |-> LoNeighbor(gp, d), hi |-> HiNeighbor(gp, d)])]

\* a read of a scalar point printed as an aligned vector read
readFromScalarPoint_asVector(h, gp) == printAlignedVecRead(h, gp)

\* readFromScalarPoint: one scalar load and a broadcast
readFromScalarPoint(h, gp) ==
    [h EXCEPT !.os = @ \o <<[stmt |-> "scalar", gp |-> gp], [stmt |-> "broadcast", gp |-> gp]>>]

\* a printNonVecRead that reads the first element into every lane
printNonVecRead_firstElem(h, gp) ==
    [h EXCEPT !.os = Append(@, [stmt |-> "elems", gp |-> gp,
                                lanes |-> [c \in FoldLanes |-> gp]])]

\* printNonVecRead: the elements are read one by one, each into its lane
printNonVecRead(h, gp) ==
    [h EXCEPT !.os = Append(@, [stmt |-> "elems", gp |-> gp,
                                lanes |-> [c \in FoldLanes |-> Elem(gp, c)]])]

\* the vector the statements printed for a read compute: that of the last one
ValueOf(stmts) ==
    LET s == stmts[Len(stmts)]
    IN  CASE s.stmt = "load" -> AlignedVec(s.gp)
          [] s.stmt = "align" -> AlignVec(AlignedVec(s.lo), AlignedVec(s.hi), s.dim, s.count)
          [] s.stmt = "broadcast" -> BroadcastVec(s.gp)
          [] s.stmt = "elems" -> s.lanes
          [] OTHER -> <<>>

\* CppVecPrintHelper::readFromPoint: the read of the category of gp is
\* printed; a point of no category is a fatal error
readFromPoint(h, gp) ==
    LET cat == Classify(gp)
        h1 == CASE cat = "aligned" -> printAlignedVecRead(h, gp)
                [] cat = "unaligned" -> printUnalignedVecRead(h, gp)
                [] cat = "scalar-broadcast" -> readFromScalarPoint(h, gp)
                [] cat = "non-vectorizable" -> printNonVecRead(h, gp)
                [] OTHER -> [h EXCEPT !.os = Append(@, [stmt |-> "error", gp |-> gp])]
    IN  [h1 EXCEPT !.calls = Append(@, [fn |-> "readFromPoint", gp |-> gp, cat |-> cat,
                                        val |-> ValueOf(SubSeq(h1.os, Len(h.os) + 1, Len(h1.os))),
                                        stmts |-> SubSeq(h1.os, Len(h.os) + 1, Len(h1.os)),
                                        lo |-> h1._ptrOfsLo, hi |-> h1._ptrOfsHi])]

\* the variables take the state h of the helper
Becomes(h) ==
    /\ _vecPtrs' = h._vecPtrs
    /\ _ptrOfsLo' = h._ptrOfsLo
    /\ _ptrOfsHi' = h._ptrOfsHi
    /\ _varNum' = h._varNum
    /\ os' = h.os
    /\ calls' = h.calls
    /\ UNCHANGED <<_allowUnalignedLoads, _dims>>
    /\ UNCHANGED visitorVars
    /\ UNCHANGED realvVars

\* most calls made on one helper
MaxCalls == 3

\* calls made on the helper from outside
TopCalls ==
    Cardinality({i \in 1..Len(calls) : calls[i].fn \in {"readFromPoint", "equation"}})

\* YASKCppPrinter::newCppVecPrintHelper: a helper with the settings of the
\* compiler and an empty pointer cache
CodegenInit ==
    /\ _allowUnalignedLoads \in BOOLEAN
    /\ _dims \in [_fold : FoldShapes, _innerDim : {"x", "y"}]
    /\ _vecPtrs = <<>>
    /\ _ptrOfsLo = <<>>
    /\ _ptrOfsHi = <<>>
    /\ _varNum = 0
    /\ os = <<>>
    /\ calls = <<>>
    /\ nodes = <<>>
    /\ visitor = "none"
    /\ stack = <<>>
    /\ trace = <<>>
    /\ _numOps = 0
    /\ REAL_BYTES = 4
    /\ VLEN = 4
    /\ pc = "done"
    /\ op = "none"
    /\ args = <<>>
    /\ res = <<>>

\* CppVecPrintHelper::readFromPoint(os, gp), for a read of the equation
ReadFromPoint ==
    /\ _dims # <<>>
    /\ TopCalls < MaxCalls
    /\ \E gp \in Points : Becomes(readFromPoint(Helper, gp))

\* a helper that forgets its pointers from one equation to the next
NextHelper_fresh(h) ==
    [h EXCEPT !._vecPtrs = <<>>, !._ptrOfsLo = <<>>, !._ptrOfsHi = <<>>]

\* the helper the next equation of the group is printed with: the same one,
\* made once for the group
NextHelper(h) == h

\* the next equation of the group is printed
NextEquation ==
    /\ _dims # <<>>
    /\ TopCalls < MaxCalls
    /\ calls # <<>>
    /\ calls[Len(calls)].fn # "equation"
    /\ Becomes([NextHelper(Helper) EXCEPT !.calls = Append(@, [fn |-> "equation"])])

CodegenNext ==
    \/ ReadFromPoint
    \/ NextEquation

SpecCodegen == CodegenInit /\ [][CodegenNext]_vars

(***************************************************************************)
(* The pointer cache on its own: savePointPtr, lookupPointPtr and the      *)
(* request of the aligned pointer of a base point, called in any order.    *)
(***************************************************************************)
\* most calls made on the pointer cache of one helper
MaxPtrCalls == 3

\* points the cache is called with: base points, and a point that is none
PtrKeys ==
    {makeBasePoint(Data(0, 0)), makeBasePoint(Data(1, 0)),
     makeBasePoint(Rho(0, 0, 0)), makeBasePoint(Rho(0, -1, 0)), Data(0, 0)}

\* accesses whose aligned pointer is asked for
PtrAccesses == {Data(0, 0), Data(0, 4), Data(0, -4), Data(1, 0), Rho(0, 0, 0), Rho(2, -1, 0)}

\* variable names saved from outside
PtrNames == {101, 102}

PtrCalls ==
    Cardinality({i \in 1..Len(calls) : calls[i].fn \in {"save", "lookup", "basePtr"}})

\* CppVecPrintHelper::savePointPtr(gp, var)
SavePointPtr ==
    /\ _dims # <<>>
    /\ PtrCalls < MaxPtrCalls
    /\ \E gp \in PtrKeys, var \in PtrNames :
           Becomes([savePointPtr(Helper, gp, var) EXCEPT
                       !.calls = Append(@, [fn |-> "save", gp |-> gp, var |-> var])])

\* CppVecPrintHelper::lookupPointPtr(gp)
LookupPointPtr ==
    /\ _dims # <<>>
    /\ PtrCalls < MaxPtrCalls
    /\ \E gp \in PtrKeys :
           Becomes([Lookup(Helper, gp) EXCEPT
                       !.calls = Append(@, [fn |-> "lookup", gp |-> gp,
                                            ret |-> lookupPointPtr(Helper, gp)])])

\* the aligned pointer of the base point of an access is asked for, and the
\* offset of the access recorded
BasePtr ==
    /\ _dims # <<>>
    /\ PtrCalls < MaxPtrCalls
    /\ \E gp \in PtrAccesses :
           LET h == printAlignedVecRead(Helper, gp)
               bgp == makeBasePoint(gp)
           IN  Becomes([h EXCEPT
                           !.calls = Append(@, [fn |-> "basePtr", gp |-> bgp, access |-> gp,
                                                ret |-> lookupPointPtr(h, bgp),
                                                entries |-> Cardinality(DOMAIN h._vecPtrs),
                                                lo |-> h._ptrOfsLo, hi |-> h._ptrOfsHi])])

PtrCacheNext ==
    \/ SavePointPtr
    \/ LookupPointPtr
    \/ BasePtr

SpecPtrCache == CodegenInit /\ [][PtrCacheNext]_vars

(***************************************************************************)
(* fd_coeff.cpp: fd_coeff(coeff, eval_point, order, points, num_points).   *)
(* The work array d[order+1][num_points][num_points] is a function of      *)
(* index triples; a read whose indices leave the array finds whatever the  *)
(* stack holds there.  The points are such that every float operation is   *)
(* exact.                                                                  *)
(***************************************************************************)
\* largest order of derivative asked for
MaxOrder == 3

\* the larger of the two
MIN_max(x, y) == IF x < y THEN y ELSE x

\* #define MIN(x, y) (((x) < (y)) ? (x) : (y))
MIN(x, y) == IF x < y THEN x ELSE y

\* points[]: sequences whose differences are powers of two
FdPoints ==
    {<<0>>, <<0, 1>>, <<1, 0>>, <<-1, 0, 1>>, <<0, 2, 4>>, <<-2, 0, 2>>}

\* eval_point
FdEvalPoints == {0, 1}

\* what a read outside d may find
Garbage == {RealInt(7), Inf(0), NaN(0)}

\* index triples of float d[order+1][num_points][num_points]
InD(order, np) == (0..order) \X (0..(np - 1)) \X (0..(np - 1))

\* d after memset(d, 0, sizeof(d)) and d[0][0][0] = 1, with c1 = 1.f
FdStart(order, np) ==
    [d |-> [t \in InD(order, np) |-> IF t = <<0, 0, 0>> THEN RealInt(1) ELSE Zero(0)],
     c1 |-> RealInt(1), c2 |-> RealInt(1),
     reads |-> {}, writes |-> {<<0, 0, 0>>}]

\* the value the read of d[t] gives: the entry, or garbage outside the array
FdRead(st, t, g) == IF t \in DOMAIN st.d THEN st.d[t] ELSE g

\* st after reads of the entries ts and the assignment d[t] = val
FdWrite(st, ts, t, val) ==
    [st EXCEPT !.d = IF t \in DOMAIN @ THEN [@ EXCEPT ![t] = val] ELSE @,
               !.reads = @ \cup ts,
               !.writes = @ \cup {t}]

\* d[m][n][v] = (points[n]-x_0)*d[m][n-1][v] - m*d[m-1][n-1][v];
\* d[m][n][v] *= 1.f/c3;
FdInner(st, pts, x0, g, n, v, m, c3) ==
    LET val == FSub(FMul(FSub(RealInt(pts[n + 1]), RealInt(x0)), FdRead(st, <<m, n - 1, v>>, g)),
                    FMul(RealInt(m), FdRead(st, <<m - 1, n - 1, v>>, g)))
    IN  FdWrite(st, {<<m, n - 1, v>>, <<m - 1, n - 1, v>>, <<m, n, v>>}, <<m, n, v>>,
                FMul(val, FDiv(RealInt(1), c3)))

\* d[m][n][n] = m*d[m-1][n-1][n-1] - (points[n-1]-x_0)*d[m][n-1][n-1];
\* d[m][n][n] *= c1/c2;
FdDiag(st, pts, x0, g, n, m) ==
    LET val == FSub(FMul(RealInt(m), FdRead(st, <<m - 1, n - 1, n - 1>>, g)),
                    FMul(FSub(RealInt(pts[n]), RealInt(x0)), FdRead(st, <<m, n - 1, n - 1>>, g)))
    IN  FdWrite(st, {<<m - 1, n - 1, n - 1>>, <<m, n - 1, n - 1>>, <<m, n, n>>}, <<m, n, n>>,
                FMul(val, FDiv(st.c1, st.c2)))

RECURSIVE FdLoopM(_, _, _, _, _, _, _, _, _)
\* for(int m=0; m<=MIN(n, order); ++m) of the loop over v
FdLoopM(st, pts, x0, g, order, n, v, m, c3) ==
    IF m > MIN(n, order) THEN st
    ELSE FdLoopM(FdInner(st, pts, x0, g, n, v, m, c3), pts, x0, g, order, n, v, m + 1, c3)

RECURSIVE FdLoopV(_, _, _, _, _, _, _)
\* for(int v=0; v<=n-1; v++)
FdLoopV(st, pts, x0, g, order, n, v) ==
    IF v > n - 1 THEN st
    ELSE LET c3 == FSub(RealInt(pts[n + 1]), RealInt(pts[v + 1]))
             st1 == [st EXCEPT !.c2 = FMul(@, c3)]
         IN  FdLoopV(FdLoopM(st1, pts, x0, g, order, n, v, 0, c3), pts, x0, g, order, n, v + 1)

RECURSIVE FdLoopD(_, _, _, _, _, _, _)
\* for(int m=0; m<= MIN(n, order); m++) of the diagonal
FdLoopD(st, pts, x0, g, order, n, m) ==
    IF m > MIN(n, order) THEN st
    ELSE FdLoopD(FdDiag(st, pts, x0, g, n, m), pts, x0, g, order, n, m + 1)

RECURSIVE FdLoopN(_, _, _, _, _, _)
\* for(int n=1; n<=num_points-1;n++)
FdLoopN(st, pts, x0, g, order, n) ==
    IF n > Len(pts) - 1 THEN st
    ELSE LET st1 == FdLoopV([st EXCEPT !.c2 = RealInt(1)], pts, x0, g, order, n, 0)
             st2 == FdLoopD(st1, pts, x0, g, order, n, 0)
         IN  FdLoopN([st2 EXCEPT !.c1 = st2.c2], pts, x0, g, order, n + 1)

\* fd_coeff: the work array at the end, what was read and written, and
\* coeff[i] = d[order][num_points-1][i]
fd_coeff(x0, order, pts, g) ==
    LET np == Len(pts)
        st == FdLoopN(FdStart(order, np), pts, x0, g, order, 1)
    IN  [coeff |-> [i \in 0..(np - 1) |-> st.d[<<order, np - 1, i>>]],
         d |-> st.d,
         reads |-> st.reads \cup {<<order, np - 1, i>> : i \in 0..(np - 1)},
         writes |-> st.writes]

FdInit ==
    /\ pc = "start"
    /\ op = "none"
    /\ args = <<>>
    /\ res = <<>>
    /\ REAL_BYTES = 4
    /\ VLEN = 1
    /\ nodes = <<>>
    /\ visitor = "none"
    /\ stack = <<>>
    /\ trace = <<>>
    /\ _numOps = 0
    /\ NoHelper

\* a call of fd_coeff
FdCoeff ==
    /\ pc = "start"
    /\ \E x0 \in FdEvalPoints, order \in 0..MaxOrder, pts \in FdPoints, g \in Garbage :
           \E out \in {fd_coeff(x0, order, pts, g)} :
               /\ pc' = "done"
               /\ op' = "fd_coeff"
               /\ args' = [eval_point |-> x0, order |-> order, points |-> pts,
                           num_points |-> Len(pts)]
               /\ res' = out
    /\ UNCHANGED <<REAL_BYTES, VLEN>>
    /\ UNCHANGED visitorVars
    /\ UNCHANGED codegenVars

\* the caller reads the coefficients
FdReturn ==
    /\ pc = "done"
    /\ op = "fd_coeff"
    /\ pc' = "read"
    /\ UNCHANGED <<REAL_BYTES, VLEN, op, args, res>>
    /\ UNCHANGED visitorVars
    /\ UNCHANGED codegenVars

FdNext ==
    \/ FdCoeff
    \/ FdReturn

SpecFdCoeff == FdInit /\ [][FdNext]_vars

(***************************************************************************)
(* AwpElasticStencil.cpp.  define() is run once with symbolic indices and  *)
(* yields equations "grid(t+1, x, y, z) EQUALS rhs IF cond".  An index is  *)
(* kept as its offset from the point (x, y, z) being defined, a right-hand *)
(* side as the set of grid points it reads (grids without a z index are    *)
(* left out), and a condition as a comparison of z with SURFACE_IDX + ofs. *)
(* The equations are then evaluated over the z indices 0..last_index(z).   *)
(***************************************************************************)
\* largest last_index(z)
MaxLastZ == 5

\* #define SET_ALL_POINTS is commented out
SET_ALL_POINTS_undefined == FALSE

\* #define SET_ALL_POINTS
SET_ALL_POINTS == TRUE

\* #define DO_ABOVE_SURFACE
DO_ABOVE_SURFACE == TRUE

\* a surface one point before the last domain index
SURFACE_IDX_oneBefore(last) == last - 1

\* #define SURFACE_IDX (last_index(z) - 2)
SURFACE_IDX(last) == last - 2

IF_BELOW_SURFACE == [rel |-> "<", ofs |-> 0]
IF_AT_SURFACE == [rel |-> "==", ofs |-> 0]
IF_AT_OR_BELOW_SURFACE == [rel |-> "<=", ofs |-> 0]
IF_ONE_ABOVE_SURFACE == [rel |-> "==", ofs |-> 1]
IF_TWO_ABOVE_SURFACE == [rel |-> "==", ofs |-> 2]

\* the value of the condition c at the index z
CondHolds(c, z, last) ==
    CASE c.rel = "<" -> z < SURFACE_IDX(last) + c.ofs
      [] c.rel = "==" -> z = SURFACE_IDX(last) + c.ofs
      [] c.rel = "<=" -> z <= SURFACE_IDX(last) + c.ofs

\* the grid point g(t+dt, x+dx, y+dy, z+dz)
GridPoint(g, dt, dx, dy, dz) == {[g |-> g, t |-> dt, x |-> dx, y |-> dy, z |-> dz]}

\* val *= cr_x(x) * cr_y(y) * cr_z(z), with the indices of the stencil
adjust_for_sponge == GridPoint("cr_z", 0, 0, 0, 0)

get_next_vel_x(x, y, z) ==
    GridPoint("rho", 0, x, y, z) \cup GridPoint("rho", 0, x, y - 1, z)
    \cup GridPoint("rho", 0, x, y, z - 1) \cup GridPoint("rho", 0, x, y - 1, z - 1)
    \cup GridPoint("stress_xx", 0, x, y, z) \cup GridPoint("stress_xx", 0, x - 1, y, z)
    \cup GridPoint("stress_xx", 0, x + 1, y, z) \cup GridPoint("stress_xx", 0, x - 2, y, z)
    \cup GridPoint("stress_xy", 0, x, y, z) \cup GridPoint("stress_xy", 0, x, y - 1, z)
    \cup GridPoint("stress_xy", 0, x, y + 1, z) \cup GridPoint("stress_xy", 0, x, y - 2, z)
    \cup GridPoint("stress_xz", 0, x, y, z) \cup GridPoint("stress_xz", 0, x, y, z - 1)
    \cup GridPoint("stress_xz", 0, x, y, z + 1) \cup GridPoint("stress_xz", 0, x, y, z - 2)
    \cup GridPoint("vel_x", 0, x, y, z)
    \cup adjust_for_sponge

get_next_vel_y(x, y, z) ==
    GridPoint("rho", 0, x, y, z) \cup GridPoint("rho", 0, x + 1, y, z)
    \cup GridPoint("rho", 0, x, y, z - 1) \cup GridPoint("rho", 0, x + 1, y, z - 1)
    \cup GridPoint("stress_xy", 0, x + 1, y, z) \cup GridPoint("stress_xy", 0, x, y, z)
    \cup GridPoint("stress_xy", 0, x + 2, y, z) \cup GridPoint("stress_xy", 0, x - 1, y, z)
    \cup GridPoint("stress_yy", 0, x, y + 1, z) \cup GridPoint("stress_yy", 0, x, y, z)
    \cup GridPoint("stress_yy", 0, x, y + 2, z) \cup GridPoint("stress_yy", 0, x, y - 1, z)
    \cup GridPoint("stress_yz", 0, x, y, z) \cup GridPoint("stress_yz", 0, x, y, z - 1)
    \cup GridPoint("stress_yz", 0, x, y, z + 1) \cup GridPoint("stress_yz", 0, x, y, z - 2)
    \cup GridPoint("vel_y", 0, x, y, z)
    \cup adjust_for_sponge

get_next_vel_z(x, y, z) ==
    GridPoint("rho", 0, x, y, z) \cup GridPoint("rho", 0, x + 1, y, z)
    \cup GridPoint("rho", 0, x, y - 1, z) \cup GridPoint("rho", 0, x + 1, y - 1, z)
    \cup GridPoint("stress_xz", 0, x + 1, y, z) \cup GridPoint("stress_xz", 0, x, y, z)
    \cup GridPoint("stress_xz", 0, x + 2, y, z) \cup GridPoint("stress_xz", 0, x - 1, y, z)
    \cup GridPoint("stress_yz", 0, x, y, z) \cup GridPoint("stress_yz", 0, x, y - 1, z)
    \cup GridPoint("stress_yz", 0, x, y + 1, z) \cup GridPoint("stress_yz", 0, x, y - 2, z)
    \cup GridPoint("stress_zz", 0, x, y, z + 1) \cup GridPoint("stress_zz", 0, x, y, z)
    \cup GridPoint("stress_zz", 0, x, y, z + 2) \cup GridPoint("stress_zz", 0, x, y, z - 1)
    \cup GridPoint("vel_z", 0, x, y, z)
    \cup adjust_for_sponge

\* the equation "lhs(t+1, x, y, z) EQUALS rhs IF cond"
Equation(lhs, rhs, cond) == [lhs |-> lhs, rhs |-> rhs, cond |-> cond]

\* without scratch grids VEL_X, VEL_Y, VEL_Z are get_next_vel_x, _y, _z
define_free_surface_vel ==
    LET surf == 0 - 1
        dx == get_next_vel_x(1, 0, surf) \cup get_next_vel_z(1, 0, surf)
                  \cup get_next_vel_z(0, 0, surf)
        dy == get_next_vel_y(0, 0 - 1, surf) \cup get_next_vel_z(0, 0, surf)
                  \cup get_next_vel_z(0, 0 - 1, surf)
        plus1_vel_x == get_next_vel_x(0, 0, surf) \cup get_next_vel_z(0, 0, surf)
                           \cup get_next_vel_z(0 - 1, 0, surf)
        plus1_vel_y == get_next_vel_y(0, 0, surf) \cup get_next_vel_z(0, 1, surf)
                           \cup get_next_vel_z(0, 0, surf)
        plus1_vel_z == get_next_vel_z(0, 0, surf) \cup dx \cup plus1_vel_x
                           \cup get_next_vel_x(1, 0, surf) \cup get_next_vel_x(0, 0, surf)
                           \cup plus1_vel_y \cup dy
                           \cup get_next_vel_y(0, 0, surf) \cup get_next_vel_y(0, 0 - 1, surf)
                           \cup GridPoint("mu", 0, 0, 0, surf)
                           \cup GridPoint("lambda", 0, 0, 0, surf)
    IN  <<Equation("vel_x", plus1_vel_x, IF_ONE_ABOVE_SURFACE),
          Equation("vel_y", plus1_vel_y, IF_ONE_ABOVE_SURFACE),
          Equation("vel_z", plus1_vel_z, IF_ONE_ABOVE_SURFACE)>>
        \o (IF SET_ALL_POINTS
            THEN <<Equation("vel_x", {}, IF_TWO_ABOVE_SURFACE),
                   Equation("vel_y", {}, IF_TWO_ABOVE_SURFACE),
                   Equation("vel_z", {}, IF_TWO_ABOVE_SURFACE)>>
            ELSE <<>>)

ave8(g, x, y, z) ==
    GridPoint(g, 0, x, y, z) \cup GridPoint(g, 0, x + 1, y, z)
    \cup GridPoint(g, 0, x, y - 1, z) \cup GridPoint(g, 0, x + 1, y - 1, z)
    \cup GridPoint(g, 0, x, y, z - 1) \cup GridPoint(g, 0, x + 1, y, z - 1)
    \cup GridPoint(g, 0, x, y - 1, z - 1) \cup GridPoint(g, 0, x + 1, y - 1, z - 1)

d_x_val(x, y, z) ==
    GridPoint("vel_x", 1, x + 1, y, z) \cup GridPoint("vel_x", 1, x, y, z)
    \cup GridPoint("vel_x", 1, x + 2, y, z) \cup GridPoint("vel_x", 1, x - 1, y, z)

d_y_val(x, y, z) ==
    GridPoint("vel_y", 1, x, y, z) \cup GridPoint("vel_y", 1, x, y - 1, z)
    \cup GridPoint("vel_y", 1, x, y + 1, z) \cup GridPoint("vel_y", 1, x, y - 2, z)

d_z_val(x, y, z) ==
    GridPoint("vel_z", 1, x, y, z) \cup GridPoint("vel_z", 1, x, y, z - 1)
    \cup GridPoint("vel_z", 1, x, y, z + 1) \cup GridPoint("vel_z", 1, x, y, z - 2)

get_next_stress_xx(x, y, z) ==
    GridPoint("stress_xx", 0, x, y, z) \cup ave8("mu", x, y, z) \cup ave8("lambda", x, y, z)
    \cup d_x_val(x, y, z) \cup d_y_val(x, y, z) \cup d_z_val(x, y, z)
    \cup adjust_for_sponge

get_next_stress_yy(x, y, z) ==
    GridPoint("stress_yy", 0, x, y, z) \cup ave8("mu", x, y, z) \cup ave8("lambda", x, y, z)
    \cup d_y_val(x, y, z) \cup d_x_val(x, y, z) \cup d_z_val(x, y, z)
    \cup adjust_for_sponge

get_next_stress_zz(x, y, z) ==
    GridPoint("stress_zz", 0, x, y, z) \cup ave8("mu", x, y, z) \cup ave8("lambda", x, y, z)
    \cup d_z_val(x, y, z) \cup d_x_val(x, y, z) \cup d_y_val(x, y, z)
    \cup adjust_for_sponge

get_next_stress_xy(x, y, z) ==
    GridPoint("mu", 0, x, y, z) \cup GridPoint("mu", 0, x, y, z - 1)
    \cup GridPoint("vel_x", 1, x, y + 1, z) \cup GridPoint("vel_x", 1, x, y, z)
    \cup GridPoint("vel_x", 1, x, y + 2, z) \cup GridPoint("vel_x", 1, x, y - 1, z)
    \cup GridPoint("vel_y", 1, x, y, z) \cup GridPoint("vel_y", 1, x - 1, y, z)
    \cup GridPoint("vel_y", 1, x + 1, y, z) \cup GridPoint("vel_y", 1, x - 2, y, z)
    \cup GridPoint("stress_xy", 0, x, y, z)
    \cup adjust_for_sponge

get_next_stress_xz(x, y, z) ==
    GridPoint("mu", 0, x, y, z) \cup GridPoint("mu", 0, x, y - 1, z)
    \cup GridPoint("vel_x", 1, x, y, z + 1) \cup GridPoint("vel_x", 1, x, y, z)
    \cup GridPoint("vel_x", 1, x, y, z + 2) \cup GridPoint("vel_x", 1, x, y, z - 1)
    \cup GridPoint("vel_z", 1, x, y, z) \cup GridPoint("vel_z", 1, x - 1, y, z)
    \cup GridPoint("vel_z", 1, x + 1, y, z) \cup GridPoint("vel_z", 1, x - 2, y, z)
    \cup GridPoint("stress_xz", 0, x, y, z)
    \cup adjust_for_sponge

get_next_stress_yz(x, y, z) ==
    GridPoint("mu", 0, x, y, z) \cup GridPoint("mu", 0, x + 1, y, z)
    \cup GridPoint("vel_y", 1, x, y, z + 1) \cup GridPoint("vel_y", 1, x, y, z)
    \cup GridPoint("vel_y", 1, x, y, z + 2) \cup GridPoint("vel_y", 1, x, y, z - 1)
    \cup GridPoint("vel_z", 1, x, y + 1, z) \cup GridPoint("vel_z", 1, x, y, z)
    \cup GridPoint("vel_z", 1, x, y + 2, z) \cup GridPoint("vel_z", 1, x, y - 1, z)
    \cup GridPoint("stress_yz", 0, x, y, z)
    \cup adjust_for_sponge

define_free_surface_stress ==
    LET surf1 == 0 - 1
        surf2 == 0 - 2
    IN  <<Equation("stress_zz", get_next_stress_zz(0, 0, surf1), IF_ONE_ABOVE_SURFACE),
          Equation("stress_xz", get_next_stress_xz(0, 0, surf1 - 1), IF_ONE_ABOVE_SURFACE),
          Equation("stress_yz", get_next_stress_yz(0, 0, surf1 - 1), IF_ONE_ABOVE_SURFACE)>>
        \o (IF SET_ALL_POINTS
            THEN <<Equation("stress_xx", {}, IF_ONE_ABOVE_SURFACE),
                   Equation("stress_yy", {}, IF_ONE_ABOVE_SURFACE),
                   Equation("stress_xy", {}, IF_ONE_ABOVE_SURFACE)>>
            ELSE <<>>)
        \o <<Equation("stress_zz", get_next_stress_zz(0, 0, surf2 - 1), IF_TWO_ABOVE_SURFACE),
             Equation("stress_xz", get_next_stress_xz(0, 0, surf2 - 2), IF_TWO_ABOVE_SURFACE),
             Equation("stress_yz", get_next_stress_yz(0, 0, surf2 - 2), IF_TWO_ABOVE_SURFACE)>>
        \o (IF SET_ALL_POINTS
            THEN <<Equation("stress_xx", {}, IF_TWO_ABOVE_SURFACE),
                   Equation("stress_yy", {}, IF_TWO_ABOVE_SURFACE),
                   Equation("stress_xy", {}, IF_TWO_ABOVE_SURFACE)>>
            ELSE <<>>)

\* the equations of AwpElasticStencil::define, in the order it makes them
define ==
    <<Equation("vel_x", get_next_vel_x(0, 0, 0), IF_AT_OR_BELOW_SURFACE),
      Equation("vel_y", get_next_vel_y(0, 0, 0), IF_AT_OR_BELOW_SURFACE),
      Equation("vel_z", get_next_vel_z(0, 0, 0), IF_AT_OR_BELOW_SURFACE),
      Equation("stress_xx", get_next_stress_xx(0, 0, 0), IF_BELOW_SURFACE),
      Equation("stress_yy", get_next_stress_yy(0, 0, 0), IF_BELOW_SURFACE),
      Equation("stress_xy", get_next_stress_xy(0, 0, 0), IF_BELOW_SURFACE),
      Equation("stress_xz", get_next_stress_xz(0, 0, 0), IF_BELOW_SURFACE),
      Equation("stress_yz", get_next_stress_yz(0, 0, 0), IF_BELOW_SURFACE),
      Equation("stress_zz", get_next_stress_zz(0, 0, 0), IF_BELOW_SURFACE),
      Equation("stress_xx", get_next_stress_xx(0, 0, 0), IF_AT_SURFACE),
      Equation("stress_yy", get_next_stress_yy(0, 0, 0), IF_AT_SURFACE),
      Equation("stress_xy", get_next_stress_xy(0, 0, 0), IF_AT_SURFACE),
      Equation("stress_xz", {}, IF_AT_SURFACE),
      Equation("stress_yz", {}, IF_AT_SURFACE),
      Equation("stress_zz", get_next_stress_zz(0, 0, 0), IF_AT_SURFACE)>>
    \o (IF DO_ABOVE_SURFACE
        THEN define_free_surface_vel \o define_free_surface_stress
        ELSE <<>>)

VelGrids == {"vel_x", "vel_y", "vel_z"}
StressGrids == {"stress_xx", "stress_yy", "stress_zz", "stress_xy", "stress_xz", "stress_yz"}

AwpInit ==
    /\ pc = "start"
    /\ op = "none"
    /\ args \in [last_index : 0..MaxLastZ]
    /\ res = <<>>
    /\ REAL_BYTES = 4
    /\ VLEN = 1
    /\ nodes = <<>>
    /\ visitor = "none"
    /\ stack = <<>>
    /\ trace = <<>>
    /\ _numOps = 0
    /\ NoHelper

\* AwpElasticStencil::define
Define ==
    /\ pc = "start"
    /\ op = "none"
    /\ "last_index" \in DOMAIN args
    /\ pc' = "eval"
    /\ op' = "define"
    /\ args' = [last_index |-> args.last_index, eqs |-> define]
    /\ res' = [i |-> 1, z |-> 0, times |-> [p \in {} |-> 0], reads |-> {}]
    /\ UNCHANGED <<REAL_BYTES, VLEN>>
    /\ UNCHANGED visitorVars
    /\ UNCHANGED codegenVars

\* equation i at the index z: where its condition holds, the point of its
\* grid is defined once more and its right-hand side is read
EvalEquation ==
    /\ pc = "eval"
    /\ op = "define"
    /\ LET e == args.eqs[res.i]
           p == <<e.lhs, res.z>>
           on == CondHolds(e.cond, res.z, args.last_index)
           n == IF p \in DOMAIN res.times THEN res.times[p] ELSE 0
           rd == {[lhs |-> e.lhs, g |-> r.g, t |-> r.t, x |-> r.x, y |-> r.y,
                   z |-> res.z + r.z] : r \in e.rhs}
           lastZ == res.z = args.last_index
           lastEq == res.i = Len(args.eqs)
       IN  /\ res' = [i |-> IF lastZ /\ ~lastEq THEN res.i + 1 ELSE res.i,
                      z |-> IF lastZ THEN 0 ELSE res.z + 1,
                      times |-> IF on
                                THEN [q \in DOMAIN res.times \cup {p} |->
                                         IF q = p THEN n + 1 ELSE res.times[q]]
                                ELSE res.times,
                      reads |-> IF on THEN res.reads \cup rd ELSE res.reads]
           /\ pc' = IF lastZ /\ lastEq THEN "done" ELSE "eval"
    /\ UNCHANGED <<REAL_BYTES, VLEN, op, args>>
    /\ UNCHANGED visitorVars
    /\ UNCHANGED codegenVars

AwpNext ==
    \/ Define
    \/ EvalEquation

SpecAwp == AwpInit /\ [][AwpNext]_vars

(***************************************************************************)
(* Properties of realv.                                                    *)
(***************************************************************************)
\* builds that take the hardware branch for ARCH_KNC
KncBuild(b) == ~EMU_INTRINSICS(b) /\ b.ARCH_KNC

\* every lane of the control register names a lane of a register
ValidCtrl(ctrl) == \A i \in Lanes : ctrl[i] \in Lanes

\* the operations C3 lists
EquivOps ==
    {"operator=(REAL)", "operator-()", "operator+", "operator-", "operator*", "operator/",
     "loadFrom", "storeTo", "realv_align", "realv_align(k1)", "realv_permute",
     "realv_permute(k1)", "realv_permute2"}

\* the inputs C3 calls valid: offsets below VLEN, control lanes that name lanes
ValidInput ==
    /\ op \in {"realv_align", "realv_align(k1)"} => args.count < VLEN
    /\ op \in {"realv_permute", "realv_permute(k1)"} => ValidCtrl(args.ctrl)

\* C3: at VLEN = V512_ELEMS every operation has, on every valid input, the
\* same outcome in the builds that emulate and in the builds that use the
\* intrinsics.
C3_EmuEqualsIntrinsic ==
    (op \in EquivOps /\ VLEN = V512_ELEMS /\ ValidInput)
        => \A b1 \in DOMAIN res, b2 \in DOMAIN res : res[b1] = res[b2]

\* the operations of C3 but negate, and the builds but those for ARCH_KNC
EmuEqualsIntrinsicButNegateAndKnc ==
    (op \in EquivOps \ {"operator-()"} /\ VLEN = V512_ELEMS /\ ValidInput)
        => \A b1 \in DOMAIN res, b2 \in DOMAIN res :
               (~KncBuild(b1) /\ ~KncBuild(b2)) => res[b1] = res[b2]

\* v3 followed by v2 as one sequence of 2 * VLEN lanes
DoubleWidth(v2, v3) == [j \in 0..(2 * VLEN - 1) |-> IF j < VLEN THEN v3[j] ELSE v2[j - VLEN]]

\* C4: for 0 < k < VLEN, realv_align(res, v2, v3, k) sets res[i] = v3[i+k]
\* for i < VLEN-k and res[i] = v2[i+k-VLEN] for i >= VLEN-k: the window of
\* VLEN lanes from lane k of v3 followed by v2.
C4_AlignWindow ==
    (op = "realv_align" /\ 0 < args.count /\ args.count < VLEN)
        => \A b \in DOMAIN res :
               /\ ~res[b].exit
               /\ DOMAIN res[b].v = Lanes
               /\ \A i \in Lanes :
                      /\ i < VLEN - args.count => res[b].v[i] = args.v3[i + args.count]
                      /\ i >= VLEN - args.count
                            => res[b].v[i] = args.v2[i + args.count - VLEN]
                      /\ res[b].v[i] = DoubleWidth(args.v2, args.v3)[i + args.count]

\* an align of 64-bit lanes by 3 in the build for ARCH_KNC took lanes of both registers
C4_Witness ==
    /\ op = "realv_align"
    /\ REAL_BYTES = 8
    /\ VLEN = 8
    /\ args.count = 3
    /\ args.v2 = Tagged(VLEN)
    /\ \E b \in DOMAIN res :
           KncBuild(b) /\ res[b].v[4] = RealInt(7) /\ res[b].v[5] = RealInt(8)

\* the lanes the unmasked operation gives for the arguments of the masked one
Unmasked(b) ==
    IF op = "realv_align(k1)"
    THEN realv_align(b, args.res, args.v2, args.v3, args.count)
    ELSE realv_permute(b, args.res, args.ctrl, args.v3, args.oob)

\* the masked operation wrote the lanes of the mask and kept the others
MaskedEffect(b) ==
    /\ ~res[b].exit
    /\ ~Unmasked(b).exit
    /\ DOMAIN res[b].v = Lanes
    /\ \A i \in Lanes :
           res[b].v[i] = IF (args.k1 \div (2 ^ i)) % 2 = 1 THEN Unmasked(b).v[i]
                         ELSE args.res[i]

MaskedOps == {"realv_align(k1)", "realv_permute(k1)"}

IsPermutation(ctrl) == ValidCtrl(ctrl) /\ \A i \in Lanes : \E j \in Lanes : ctrl[j] = i

\* realv_permute gathered the lanes of v3 that ctrl names
PermuteEffect(b) ==
    /\ ~res[b].exit
    /\ DOMAIN res[b].v = Lanes
    /\ \A i \in Lanes : res[b].v[i] = args.v3[args.ctrl[i]]
    /\ (\A i \in Lanes : args.ctrl[i] = i) => res[b].v = args.v3
    /\ IsPermutation(args.ctrl)
          => \A x \in {args.v3[i] : i \in Lanes} :
                 Cardinality({i \in Lanes : res[b].v[i] = x})
                     = Cardinality({i \in Lanes : args.v3[i] = x})

CtrlIdx(c) == c % (CTRL_IDX_MASK + 1)
CtrlSel(c) == (c \div CTRL_SEL_BIT) % 2

\* realv_permute2 took every lane from the register and lane its control lane selects
Permute2Effect(b) ==
    /\ ~res[b].exit
    /\ DOMAIN res[b].v = Lanes
    /\ \A i \in Lanes :
           res[b].v[i] = IF CtrlSel(args.ctrl[i]) = 1 THEN args.b[CtrlIdx(args.ctrl[i])]
                         ELSE args.a[CtrlIdx(args.ctrl[i])]

\* every control lane selects a lane that the registers have
ValidCtrl2(ctrl) == \A i \in Lanes : CtrlIdx(ctrl[i]) \in Lanes

Ordered(r) == \A i \in Lanes : ~IsNaN(r[i])

\* r[i] == rhs[i] on the lanes before j
SameBefore(r, rhs, j) == \A i \in Lanes : i < j => ~FNe(r[i], rhs[i])

\* neither r[i] < rhs[i] nor r[i] > rhs[i] on the lanes before j
NoneDecidesBefore(r, rhs, j) ==
    \A i \in Lanes : i < j => ~FLt(r[i], rhs[i]) /\ ~FGt(r[i], rhs[i])

ComparePairs == (1..3) \X (1..3)

\* the outcome of the comparators, the same in every build
Cmp == res[CHOOSE b \in DOMAIN res : TRUE].v

\* irreflexive, asymmetric and transitive on the registers without NaN
StrictOrderOnOrdered ==
    LET r == args.regs
        lt == Cmp.lt
    IN  /\ \A x \in 1..3 : ~lt[<<x, x>>]
        /\ \A p \in ComparePairs :
               (Ordered(r[p[1]]) /\ Ordered(r[p[2]]) /\ lt[p]) => ~lt[<<p[2], p[1]>>]
        /\ \A x \in 1..3, y \in 1..3, z \in 1..3 :
               (Ordered(r[x]) /\ Ordered(r[y]) /\ Ordered(r[z])
                   /\ lt[<<x, y>>] /\ lt[<<y, z>>]) => lt[<<x, z>>]

\* C8 as stated: a < b iff some lane j has a[j] < b[j] and a[i] == b[i] for
\* all i < j; over totally ordered lane values operator< is irreflexive,
\* asymmetric and transitive.
C8_LexEveryLaneValue ==
    op = "compare"
        => /\ \A p \in ComparePairs :
                  Cmp.lt[p] <=> \E j \in Lanes :
                                    /\ FLt(args.regs[p[1]][j], args.regs[p[2]][j])
                                    /\ SameBefore(args.regs[p[1]], args.regs[p[2]], j)
           /\ StrictOrderOnOrdered

\* C8: a < b iff some lane j has a[j] < b[j] and on no lane i < j a[i] < b[i]
\* or a[i] > b[i]; when no lane of a or b is a NaN that is a[i] == b[i] for
\* all i < j, and operator< is irreflexive, asymmetric and transitive.
C8_Lex ==
    op = "compare"
        => /\ \A p \in ComparePairs :
                  LET a == args.regs[p[1]]
                      b == args.regs[p[2]]
                  IN  /\ Cmp.lt[p] <=> \E j \in Lanes :
                                           FLt(a[j], b[j]) /\ NoneDecidesBefore(a, b, j)
                      /\ (Ordered(a) /\ Ordered(b))
                            => (Cmp.lt[p] <=> \E j \in Lanes :
                                                  FLt(a[j], b[j]) /\ SameBefore(a, b, j))
           /\ \A b1 \in DOMAIN res, b2 \in DOMAIN res : res[b1] = res[b2]
           /\ StrictOrderOnOrdered

\* two registers without NaN, equal in the first lane, ordered by the last
\* one, and a third register below both
C8_Witness ==
    /\ op = "compare"
    /\ VLEN = 16
    /\ \A x \in 1..3 : Ordered(args.regs[x])
    /\ ~FNe(args.regs[2][0], args.regs[3][0])
    /\ Cmp.lt[<<1, 2>>]
    /\ Cmp.lt[<<2, 3>>]
    /\ Cmp.lt[<<1, 3>>]
    /\ ~Cmp.lt[<<3, 2>>]

\* x is the REAL of p significant bits nearest to the natural number n
NearestTo(x, n, p) ==
    /\ x.k = "fin"
    /\ x.d = 1
    /\ BitLen(x.n) > p => x.n % (2 ^ (BitLen(x.n) - p)) = 0
    /\ IF BitLen(n) <= p THEN x.n = n
       ELSE 2 * Abs(x.n - n) <= 2 ^ (BitLen(n) - p)

\* x is the value val converted to REAL, val being an int
ConvertedInt(x, val) ==
    /\ NearestTo(x, Abs(val), SigBits)
    /\ x.s = (IF val < 0 THEN 1 ELSE 0)

\* x is the value val converted to REAL, val being of the other precision
ConvertedOther(x, val) ==
    IF val.k = "fin"
    THEN /\ x.k = "fin"
         /\ x.s = val.s
         /\ IF val.d = 1 THEN NearestTo(x, val.n, SigBits) ELSE x = val
    ELSE x = val

\* C9: after a broadcast assignment every lane holds the same value: the
\* scalar itself, or the int or other-precision scalar converted to REAL by
\* value.
C9_Broadcast ==
    op \in {"operator=(REAL)", "operator=(int)", "operator=(other)"}
        => \A b \in DOMAIN res :
               /\ ~res[b].exit
               /\ DOMAIN res[b].v = Lanes
               /\ \A i \in Lanes :
                      /\ res[b].v[i] = res[b].v[0]
                      /\ op = "operator=(REAL)" => res[b].v[i] = args.val
                      /\ op = "operator=(int)" => ConvertedInt(res[b].v[i], args.val)
                      /\ op = "operator=(other)" => ConvertedOther(res[b].v[i], args.val)

\* the int 2^24 + 1 was broadcast to sixteen floats
C9_Witness ==
    /\ op = "operator=(int)"
    /\ REAL_BYTES = 4
    /\ VLEN = 16
    /\ args.val = 16777217
    /\ \A b \in DOMAIN res : res[b].v[15] = RealInt(16777216)

\* C10: in every build storeTo(to) writes to[i] = r[i] for every lane, leaves
\* the register and the rest of memory as they were, and a loadFrom(to) that
\* follows gives the lanes that were stored.
C10_StoreLoad ==
    /\ op \in {"storeTo", "storeTo;loadFrom"}
          => \A b \in DOMAIN res :
                 /\ ~res[b].exit
                 /\ DOMAIN res[b].v.mem[args.to] = Lanes
                 /\ \A i \in Lanes : res[b].v.mem[args.to][i] = args.r[i]
                 /\ res[b].v.r = args.r
                 /\ \A a \in DOMAIN args.mem : a # args.to => res[b].v.mem[a] = args.mem[a]
                 /\ \A b2 \in DOMAIN res : res[b2].v.mem = res[b].v.mem
    /\ op = "storeTo;loadFrom"
          => \A b \in DOMAIN res :
                 /\ DOMAIN res[b].v.loaded = Lanes
                 /\ \A i \in Lanes : res[b].v.loaded[i] = args.r[i]

\* sixteen lanes were streamed over other values and loaded back
C10_Witness ==
    /\ op = "storeTo;loadFrom"
    /\ pc = "done"
    /\ VLEN = 16
    /\ REAL_BYTES = 4
    /\ args.r = Tagged(0)
    /\ args.mem[args.to] # args.r
    /\ \E b \in DOMAIN res :
           ~EMU_INTRINSICS(b) /\ ~b.INTEL_COMPILER /\ res[b].v.loaded[15] = RealInt(15)

\* C11: for fold extents whose product is VLEN, operator()(n, i, j, k) names
\* lane n + VLEN_N * (i + VLEN_X * (j + VLEN_Y * k)); the lane lies in
\* 0..VLEN-1, distinct coordinates name distinct lanes, every lane is named,
\* and the const and non-const accessors name the same lane.
C11_LaneAddress ==
    op = "operator()"
        => \A b \in DOMAIN res :
               LET f == args.fold
                   at == res[b].v
               IN  /\ ~res[b].exit
                   /\ DOMAIN at = Coords(f)
                   /\ \A c \in Coords(f) :
                          /\ at[c].const = c[1] + f[1] * (c[2] + f[2] * (c[3] + f[3] * c[4]))
                          /\ at[c].const \in Lanes
                          /\ at[c].nonconst = at[c].const
                          /\ args.r[at[c].nonconst] = RealInt(at[c].const)
                   /\ \A c \in Coords(f), e \in Coords(f) :
                          c # e => at[c].const # at[e].const
                   /\ \A l \in Lanes : \E c \in Coords(f) : at[c].const = l

\* a 2 x 4 x 2 x 1 fold of sixteen lanes: (1, 3, 1, 0) is the last lane
C11_Witness ==
    /\ op = "operator()"
    /\ VLEN = 16
    /\ args.fold = <<2, 4, 2, 1>>
    /\ \A b \in DOMAIN res : res[b].v[<<1, 3, 1, 0>>].nonconst = 15

\* the pairings of precision and width that fill a 512-bit register, and the
\* scalar width 1
LegalPairing == REAL_BYTES \in {4, 8} /\ (VLEN = 1 \/ VLEN * REAL_BYTES = 64)

\* the build is over: it stopped or it declared the union
BuildOver == pc \in {"failed", "built"}

\* C12 as stated: every configuration that is not a legal pairing stops with
\* an error and declares no realv.
C12_IllegalStops ==
    (BuildOver /\ ~LegalPairing) => (pc = "failed" /\ res.error # "" /\ res.realv = <<>>)

\* C12: the build stops with an error, and declares no realv, exactly when
\* REAL_BYTES is not 4 or 8; with REAL_BYTES 4 or 8 every VLEN builds, and a
\* VLEN other than 1 and the 512-bit lane count builds the emulation with a
\* warning.
C12_Build ==
    BuildOver
        => /\ (pc = "failed") <=> (REAL_BYTES \notin {4, 8})
           /\ pc = "failed" => (res.error # "" /\ res.realv = <<>>)
           /\ pc = "built"
                 => /\ res.error = ""
                    /\ res.realv.r = VLEN
                    /\ res.realv.m512 = ~res.EMU_INTRINSICS
                    /\ ~LegalPairing => (res.EMU_INTRINSICS /\ res.warnings # {})
                    /\ ~res.EMU_INTRINSICS
                          <=> (args.INTRIN512 /\ VLEN * REAL_BYTES = 64 /\ VLEN # 1)

\* three floats were built as an emulated realv, with a warning
C12_Witness ==
    /\ pc = "built"
    /\ REAL_BYTES = 4
    /\ VLEN = 3
    /\ args.INTRIN512
    /\ res.EMU_INTRINSICS
    /\ res.warnings # {}
    /\ res.realv.r = 3

(***************************************************************************)
(* Properties of the printer of vector reads.                              *)
(***************************************************************************)
Categories == {"aligned", "unaligned", "scalar-broadcast", "non-vectorizable"}

\* the reads made so far
Reads == {i \in 1..Len(calls) : calls[i].fn = "readFromPoint"}

\* the statements of kind k printed for read i
Printed(i, k) == {j \in 1..Len(calls[i].stmts) : calls[i].stmts[j].stmt = k}

\* the categories whose read was printed for read i
PrintedAs(i) ==
    {c \in Categories :
        \/ c = "aligned" /\ Printed(i, "load") # {} /\ Printed(i, "align") = {}
        \/ c = "unaligned" /\ Printed(i, "align") # {}
        \/ c = "scalar-broadcast" /\ Printed(i, "broadcast") # {}
        \/ c = "non-vectorizable" /\ Printed(i, "elems") # {}}

Fold4OverX == _dims # <<>> /\ fold = Fold(4, 1, 1) /\ innerDim = "x"

\* the reads of data(t+1,x) = data(t,x-1) + data(t,x) + data(t,x+1) were
\* printed, in this order and nothing else
ThreePointReads ==
    /\ Len(calls) > 0
    /\ calls[Len(calls)].fn = "readFromPoint"
    /\ [i \in 1..Cardinality(Reads) |->
           calls[CHOOSE j \in Reads : Cardinality({l \in Reads : l <= j}) = i].gp]
         = <<Data(0, -1), Data(0, 0), Data(0, 1)>>
    /\ \A i \in 1..Len(calls) : calls[i].fn # "equation"

\* C14: with fold width 4 over inner dimension x and unaligned loads allowed,
\* the accesses data(t,x-1) and data(t,x+1) are classified unaligned and the
\* access data(t,x) is classified aligned.
C14_ThreePointClasses ==
    (Fold4OverX /\ _allowUnalignedLoads)
        => \A i \in Reads :
               /\ calls[i].gp \in {Data(0, -1), Data(0, 1)}
                     => (calls[i].cat = "unaligned" /\ PrintedAs(i) = {"unaligned"})
               /\ calls[i].gp = Data(0, 0)
                     => (calls[i].cat = "aligned" /\ PrintedAs(i) = {"aligned"})

\* the three reads of the equation were printed with unaligned loads allowed
C14_Witness ==
    /\ Fold4OverX
    /\ _allowUnalignedLoads
    /\ ThreePointReads
    /\ {calls[i].cat : i \in Reads} = {"aligned", "unaligned"}

\* the aligned vectors the statements printed so far load from memory
Loaded == {os[j].gp : j \in {l \in 1..Len(os) : os[l].stmt = "load"}}

\* the pointer variables the loads printed so far go through
LoadPtrs == {os[j].var : j \in {l \in 1..Len(os) : os[l].stmt = "load"}}

\* the lane rotates printed so far
Aligns == {j \in 1..Len(os) : os[j].stmt = "align"}

Saves == {i \in 1..Len(calls) : calls[i].fn = "savePointPtr"}

\* calls of lookupPointPtr
Lookups == {i \in 1..Len(calls) : calls[i].fn = "lookupPointPtr"}

\* requests of the aligned pointer of a base point
BasePtrs == {i \in 1..Len(calls) : calls[i].fn = "basePtr"}

\* the saves of point gp before call i
SavesBefore(gp, i) == {j \in Saves : j < i /\ calls[j].gp = gp}

\* the name the last save of gp before call i gave it
LastSaved(gp, i) ==
    calls[CHOOSE j \in SavesBefore(gp, i) : \A l \in SavesBefore(gp, i) : l <= j].var

LoadsOf(k) == {<<calls[k].stmts[j].var, calls[k].stmts[j].gp>> : j \in Printed(k, "load")}

\* the inner-dim offsets requested through pointer p by the reads up to read i
OffsetsThrough(p, i) ==
    {a[2].args[innerDim].v :
        a \in {b \in UNION {LoadsOf(k) : k \in {r \in Reads : r <= i}} :
                  b[1] = p /\ innerDim \in DOMAIN b[2].args}}

\* C17: after every read, the low offset recorded for a pointer-cache entry
\* is the minimum and the high offset the maximum of the inner-dimension
\* offsets requested through the entry so far; low <= high, and from read to
\* read the range only widens.
C17_OffsetRange ==
    /\ \A i \in Reads :
           /\ DOMAIN calls[i].lo = DOMAIN calls[i].hi
           /\ DOMAIN calls[i].lo = {p \in 1.._varNum : OffsetsThrough(p, i) # {}}
           /\ \A p \in DOMAIN calls[i].lo :
                  /\ calls[i].lo[p] \in OffsetsThrough(p, i)
                  /\ calls[i].hi[p] \in OffsetsThrough(p, i)
                  /\ \A v \in OffsetsThrough(p, i) : calls[i].lo[p] <= v /\ v <= calls[i].hi[p]
                  /\ calls[i].lo[p] <= calls[i].hi[p]
    /\ \A i \in Reads, j \in Reads :
           i < j => \A p \in DOMAIN calls[i].lo :
                        /\ p \in DOMAIN calls[j].lo
                        /\ calls[j].lo[p] <= calls[i].lo[p]
                        /\ calls[j].hi[p] >= calls[i].hi[p]
    /\ \A p \in DOMAIN _ptrOfsLo :
           Reads # {} => LET last == CHOOSE i \in Reads : \A j \in Reads : j <= i
                         IN  _ptrOfsLo[p] = calls[last].lo[p] /\ _ptrOfsHi[p] = calls[last].hi[p]

\* the range of the pointer of data(t, 0) was 0..4 after one read and -4..4
\* after the next
C17_Witness ==
    /\ Fold4OverX
    /\ \E i \in Reads, j \in Reads :
           /\ i < j
           /\ 1 \in DOMAIN calls[i].lo
           /\ calls[i].lo[1] = 0
           /\ calls[i].hi[1] = 4
           /\ calls[j].lo[1] = -4
           /\ calls[j].hi[1] = 4

\* read i and read j are reads of different equations of the group
OtherEquation(i, j) == \E l \in 1..Len(calls) : i < l /\ l < j /\ calls[l].fn = "equation"

\* the base points a pointer variable was declared for, one for each declaration
PtrDecls == {j \in 1..Len(os) : os[j].stmt = "ptr"}

NoPtrCall(i) == i = 1 \/ calls[i - 1].fn \notin {"lookupPointPtr", "savePointPtr"}

\* C19: a read of a grid point with no extent in any fold dimension is
\* classified scalar-broadcast and printed as one scalar load followed by a
\* broadcast; it makes no pointer-cache entry and prints no aligned or
\* unaligned vector load.
C19_ScalarBroadcast ==
    /\ \A i \in Reads :
           FoldDims(calls[i].gp) = {}
               => /\ calls[i].cat = "scalar-broadcast"
                  /\ calls[i].stmts = <<[stmt |-> "scalar", gp |-> calls[i].gp],
                                        [stmt |-> "broadcast", gp |-> calls[i].gp]>>
                  /\ NoPtrCall(i)
                  /\ \A c \in FoldLanes : calls[i].val[c] = calls[i].gp
    /\ \A q \in DOMAIN _vecPtrs : FoldDims(q) # {}
    /\ \A q \in Loaded : FoldDims(q) # {}

\* coef(t) and delta_t were read, after a read that made a pointer
C19_Witness ==
    /\ \E i \in Reads : calls[i].gp = Coef(0) /\ Printed(i, "broadcast") # {}
    /\ \E i \in Reads : calls[i].gp = DeltaT /\ Printed(i, "scalar") # {}
    /\ _varNum = 1

\* C20: with unaligned loads disabled an access with a non-zero fold-local
\* offset is classified non-vectorizable, never unaligned; no error is
\* printed, and the vector printed for it has in every lane the element the
\* rotate of the two straddled registers has with unaligned loads enabled.
C20_DisabledUnaligned ==
    (_dims # <<>> /\ ~_allowUnalignedLoads)
        => /\ \A i \in Reads :
                  /\ calls[i].cat # "unaligned"
                  /\ Printed(i, "error") = {}
                  /\ OffDims(calls[i].gp) # {}
                        => /\ calls[i].cat = "non-vectorizable"
                           /\ PrintedAs(i) = {"non-vectorizable"}
                           /\ DOMAIN calls[i].val = FoldLanes
                           /\ \A d \in OffDims(calls[i].gp) :
                                  Cardinality(OffDims(calls[i].gp)) = 1
                                      => calls[i].val =
                                             AlignVec(AlignedVec(LoNeighbor(calls[i].gp, d)),
                                                      AlignedVec(HiNeighbor(calls[i].gp, d)),
                                                      d, FoldLocal(calls[i].gp, d))
           /\ \A j \in 1..Len(os) : os[j].stmt \notin {"align", "error"}

\* data(t, x-1) was read element by element, and another read followed it
C20_Witness ==
    /\ Fold4OverX
    /\ ~_allowUnalignedLoads
    /\ \E i \in Reads, j \in Reads :
           /\ i < j
           /\ calls[i].gp = Data(0, -1)
           /\ calls[i].cat = "non-vectorizable"
           /\ calls[i].val[Fold(3, 0, 0)] = Data(0, 2)
           /\ calls[j].cat = "aligned"

(***************************************************************************)
(* Properties of fd_coeff.                                                 *)
(***************************************************************************)
\* C21: when 1 <= num_points < order + 1, no entry d[order][num_points-1][i]
\* is written after the zero fill, and every coeff[i] is 0.
C21_TooFewPoints ==
    (op = "fd_coeff" /\ args.num_points >= 1 /\ args.num_points < args.order + 1)
        => /\ DOMAIN res.coeff = 0..(args.num_points - 1)
           /\ \A i \in 0..(args.num_points - 1) :
                  /\ res.coeff[i] = Zero(0)
                  /\ <<args.order, args.num_points - 1, i>> \notin res.writes

\* the third derivative was asked for from three points
C21_Witness ==
    /\ op = "fd_coeff"
    /\ args.order = 3
    /\ args.points = <<-1, 0, 1>>
    /\ res.coeff[2] = Zero(0)
    /\ <<2, 2, 2>> \in res.writes

\* C26: every read and write of d[order+1][num_points][num_points] uses a
\* first index in 0..order and second and third indices in 0..num_points-1.
C26_InBounds ==
    op = "fd_coeff"
        => \A t \in res.reads \cup res.writes : t \in InD(args.order, args.num_points)

\* C26, what holds: every write is within bounds, and every read but the
\* reads of d[m-1][n-1][.] at m = 0, which has first index -1
FdWritesInBounds ==
    op = "fd_coeff"
        => /\ \A t \in res.writes : t \in InD(args.order, args.num_points)
           /\ \A t \in res.reads : t \in InD(args.order, args.num_points) \/ t[1] = -1

(***************************************************************************)
(* Properties of AwpElasticStencil.                                        *)
(***************************************************************************)
\* the equations of the grid g whose condition holds at z
EquationsAt(g, z) ==
    {i \in DOMAIN args.eqs :
        args.eqs[i].lhs = g /\ CondHolds(args.eqs[i].cond, z, args.last_index)}

\* C22: for every z index of the domain and each of the six stress grids
\* and three velocity grids, exactly one equation defining the grid at t+1
\* has its condition true; no point is defined twice and, once all the
\* equations are evaluated, none is left undefined.
C22_SubDomains ==
    op = "define"
        => /\ \A z \in 0..args.last_index : \A g \in StressGrids \cup VelGrids :
                  Cardinality(EquationsAt(g, z)) = 1
           /\ \A p \in DOMAIN res.times : res.times[p] = 1
           /\ pc = "done" =>
                  DOMAIN res.times = (StressGrids \cup VelGrids) \X (0..args.last_index)

\* all the equations were evaluated over a domain that has points below,
\* at and above the surface
C22_Witness ==
    /\ op = "define"
    /\ pc = "done"
    /\ args.last_index = 4
    /\ <<"stress_xx", 4>> \in DOMAIN res.times
    /\ <<"vel_z", 0>> \in DOMAIN res.times

\* C29: no equation evaluated where its condition holds reads a grid at a
\* z index greater than last_index(z); the velocity equations read z up to
\* SURFACE_IDX + 2, the stress equations read velocities at t+1 up to
\* SURFACE_IDX + 1.
C29_ReadsInDomain ==
    op = "define"
        => \A r \in res.reads :
               /\ r.z <= args.last_index
               /\ r.lhs \in VelGrids => r.z <= SURFACE_IDX(args.last_index) + 2
               /\ (r.lhs \in StressGrids /\ r.g \in VelGrids /\ r.t = 1)
                      => r.z <= SURFACE_IDX(args.last_index) + 1

\* the largest z of both kinds of read is reached
C29_Witness ==
    /\ op = "define"
    /\ pc = "done"
    /\ \E r \in res.reads :
           r.lhs \in VelGrids /\ r.z = SURFACE_IDX(args.last_index) + 2
    /\ \E r \in res.reads :
           /\ r.lhs \in StressGrids /\ r.g \in VelGrids /\ r.t = 1
           /\ r.z = SURFACE_IDX(args.last_index) + 1

\* points of one grid that differ at most in their inner-dimension index
SameButInner(p, q) ==
    /\ p.grid = q.grid
    /\ \A d \in DOMAIN p.args \ {innerDim} : p.args[d] = q.args[d]

\* C23: the base point of an access gp is on the grid of gp, its
\* inner-dimension index is the constant 0 and every other index is that of
\* gp; the base point of a base point is the same point, and accesses that
\* differ only in the inner dimension have one base point, the key of the
\* pointer cache.
C23_BasePoint ==
    \A i \in BasePtrs :
        LET gp == calls[i].access
            bgp == calls[i].gp
        IN  /\ bgp.grid = gp.grid
            /\ DOMAIN bgp.args = DOMAIN gp.args
            /\ \A d \in DOMAIN gp.args :
                   bgp.args[d] = IF d = innerDim THEN Const(0) ELSE gp.args[d]
            /\ makeBasePoint(bgp) = bgp
            /\ \A j \in BasePtrs :
                   SameButInner(gp, calls[j].access)
                       => calls[j].gp = bgp

\* the pointers of data(t, x) and data(t, x+4) were asked for, x being the
\* inner dimension
C23_Witness ==
    /\ innerDim = "x"
    /\ \E i, j \in BasePtrs :
           /\ i < j
           /\ calls[i].access = Data(0, 0)
           /\ calls[j].access = Data(0, 4)
           /\ calls[j].gp = calls[i].gp

\* what FpOpCounterVisitor adds to the counter when it enters node i
OwnOps(i) ==
    CASE nodes[i].kind \in {"UnaryExpr", "BinaryExpr"} -> 1
      [] nodes[i].kind = "CommutativeExpr" -> Len(nodes[i].ops) - 1
      [] OTHER -> 0

RECURSIVE ExpandedOps(_), ExpandedAll(_)
\* the count on the tree that has a copy of node n for every use of it
ExpandedOps(n) == OwnOps(n) + ExpandedAll(nodes[n].ops)
ExpandedAll(s) ==
    IF s = <<>> THEN 0 ELSE ExpandedOps(Head(s)) + ExpandedAll(Tail(s))

\* how many times the traversal entered node n
Entered(n) == Cardinality({k \in 1..Len(trace) : trace[k] = n})

\* the entries of the nodes that use node n, one for every use site
EnteredUses(n) ==
    SumOver([u \in UseSites(nodes, n) |-> Entered(u[1])], UseSites(nodes, n))

\* C24: a node used at m places of the DAG under the root is entered once
\* for every use site of every entry of the using node, its operations are
\* counted at every entry, and the total is the count on the fully expanded
\* tree; nothing is remembered of the nodes already visited.
C24_SharedCountedPerUse ==
    (VisitDone /\ visitor = "FpOpCounterVisitor")
        => /\ Entered(root) = 1
           /\ \A n \in 1..(Len(nodes) - 1) : Entered(n) = EnteredUses(n)
           /\ getNumOps = SumOver([n \in 1..Len(nodes) |-> Entered(n) * OwnOps(n)],
                                  1..Len(nodes))
           /\ getNumOps = ExpandedOps(root)

\* a unary node is both operands of the root: its operation is counted twice
C24_Witness ==
    /\ VisitDone
    /\ visitor = "FpOpCounterVisitor"
    /\ Len(nodes) = 3
    /\ nodes[3] = [kind |-> "BinaryExpr", ops |-> <<2, 2>>]
    /\ nodes[2].kind = "UnaryExpr"
    /\ Entered(2) = 2
    /\ getNumOps = 3

\* C28: during a traversal by FpOpCounterVisitor the counter never
\* decreases.
C28_CounterMonotone == [][visitor = "FpOpCounterVisitor" => _numOps' >= _numOps]_vars

\* C28: getNumOps() is >= 0 at the end of a traversal by FpOpCounterVisitor.
C28_CountNonNegative ==
    (VisitDone /\ visitor = "FpOpCounterVisitor") => getNumOps >= 0

\* C28, what holds: the counter is >= 0 all along the traversal of an
\* expression whose commutative nodes all have an operand
CountNonNegativeNonEmpty ==
    (visitor = "FpOpCounterVisitor" /\ NoEmptyCommutative(nodes)) => getNumOps >= 0

\* the builds in which the operations are emulated
EmuBuilds == {b \in Builds : EMU_INTRINSICS(b)}

\* C25: the emulated realv_permute, masked realv_permute and realv_permute2
\* called with res bound to the object of a source register return what
\* they return with a distinct res that held the same lanes: every lane is
\* read from the source as it was before the call.
C25_InPlace ==
    /\ op = "realv_permute in place" =>
           \A b \in EmuBuilds :
               /\ res[b] = realv_permute(b, args.res, args.ctrl, args.v3, args.oob)
               /\ \A i \in Lanes : res[b].v[i] = ReadLane(args.v3, args.ctrl[i], args.oob)
    /\ op = "realv_permute(k1) in place" =>
           \A b \in EmuBuilds :
               /\ res[b] = realv_permute_mask(b, args.res, args.ctrl, args.v3, args.k1,
                                              args.oob)
               /\ \A i \in Lanes :
                      res[b].v[i] = IF Bit(args.k1, i) = 1
                                    THEN ReadLane(args.v3, args.ctrl[i], args.oob)
                                    ELSE args.v3[i]
    /\ op = "realv_permute2 in place" =>
           \A b \in EmuBuilds :
               res[b] = realv_permute2(b, args.res, args.ctrl, args.a, args.b, args.oob)

\* a rotation by one lane done in place: lane 1 went to lane 0, and the
\* last lane holds what lane 0 held before the call, not what was written
C25_Witness ==
    /\ op = "realv_permute in place"
    /\ VLEN = 4
    /\ args.v3 = Tagged(0)
    /\ args.ctrl = [i \in Lanes |-> (i + 1) % 4]
    /\ \E b \in EmuBuilds : res[b].v[0] = args.v3[1] /\ res[b].v[3] = args.v3[0]

\* the lane indices idx = ctrl.ci[i] & CTRL_IDX_MASK the emulated
\* realv_permute2 reads a or b at
Permute2Idx == {BitAnd(args.ctrl[i], CTRL_IDX_MASK) : i \in Lanes}

\* C27: in the emulated realv_permute2 every lane index
\* idx = ctrl.ci[i] & CTRL_IDX_MASK is less than VLEN, whatever the control
\* lanes and whatever the VLEN emulation is selected for: no lane of the
\* result is read outside a or b.
C27_IdxInRegister ==
    (op \in {"realv_permute2", "realv_permute2 in place"} /\ EmuBuilds # {})
        => /\ \A idx \in Permute2Idx : idx < VLEN
           /\ \A b \in EmuBuilds : \A i \in Lanes :
                  res[b].v[i] \in {args.a[l] : l \in Lanes} \cup {args.b[l] : l \in Lanes}

\* C27, what holds: idx is less than the lane count of a 512-bit register,
\* hence within a and b when VLEN is that count
IdxIn512 ==
    (op \in {"realv_permute2", "realv_permute2 in place"} /\ EmuBuilds # {})
        => /\ \A idx \in Permute2Idx : idx < V512_ELEMS
           /\ VLEN = V512_ELEMS =>
                  \A b \in EmuBuilds : \A i \in Lanes :
                      res[b].v[i] \in {args.a[l] : l \in Lanes} \cup {args.b[l] : l \in Lanes}

\* C30: for registers a and b without NaN lanes exactly one of a < b,
\* a == b, a > b holds; a > b holds iff b < a; a == b holds iff
\* a[j] == b[j] on every lane j.
C30_Trichotomy ==
    op = "compare"
        => \A p \in ComparePairs :
               LET a == args.regs[p[1]]
                   b == args.regs[p[2]]
                   q == <<p[2], p[1]>>
               IN  (Ordered(a) /\ Ordered(b))
                       => /\ Cmp.lt[p] \/ Cmp.eq[p] \/ Cmp.gt[p]
                          /\ ~(Cmp.lt[p] /\ Cmp.eq[p])
                          /\ ~(Cmp.lt[p] /\ Cmp.gt[p])
                          /\ ~(Cmp.eq[p] /\ Cmp.gt[p])
                          /\ Cmp.gt[p] <=> Cmp.lt[q]
                          /\ Cmp.eq[p] <=> \A j \in Lanes : ~FNe(a[j], b[j])

\* registers without NaN: one pair that differs only in the sign of a zero
\* and is equal, one pair that is ordered
C30_Witness ==
    /\ op = "compare"
    /\ VLEN = 8
    /\ \A x \in 1..3 : Ordered(args.regs[x])
    /\ args.regs[1] # args.regs[2]
    /\ Cmp.eq[<<1, 2>>]
    /\ Cmp.lt[<<2, 3>>]
    /\ Cmp.gt[<<3, 2>>]

====
